---- MODULE Spec2Model ----
(***************************************************************************)
(* Model of the key/value store's storage engine:                          *)
(*   - HashTable   (src/src/data_structures/hash_table.cpp)                *)
(*   - TTLHeap     (src/src/data_structures/sorted_set.cpp, lines 170-344) *)
(*   - StorageEngine and its expiry thread (src/src/storage_engine.cpp)    *)
(*   - CommandHandler::cmd_ttl (src/unnamed/part_003)                      *)
(* Every action is one critical section of the code (one call that takes   *)
(* a component's mutex), so that threads interleave exactly where the      *)
(* code lets them.                                                         *)
(***************************************************************************)
EXTENDS Integers, Sequences, FiniteSets, TLC

----------------------------------------------------------------------------
(* Bounds of the model *)

\* the steady clock runs from 0 to MaxTime
MaxTime == 2
\* ttl arguments range over 0..MaxTTL seconds
MaxTTL == 1
\* bucket count the table is constructed with (the code's default is 1024)
InitialSize == 2
\* calls each of two concurrent threads issues
ConcurrentCalls == 1
\* calls the only thread issues where a run has to come to rest
SoloCalls == 2

\* commands the thread of the sorted-set runs sends
ZSetCalls == 4

\* calls the writing thread of the shutdown runs makes
ShutdownCalls == 1
\* largest expiry given to the TTL heap on its own
MaxExpiry == 2
\* largest finite key given to the AVL tree on its own
MaxTreeKey == 5

\* scores range over 1..MaxScore and NaN
MaxScore == 2
\* SortedSet objects the engine allocates
MaxSortedSets == 2
\* ZRANGE indices range over -MaxIndex..MaxIndex
MaxIndex == 2
\* size_t: 2^64 in the code, 2^30 here, far above every size and index
SizeModulus == 1073741824
\* std::vector<std::pair<std::string, double>>::max_size(): PTRDIFF_MAX / 40
MaxVectorSize == SizeModulus \div 80

Keys == {"a", "b"}
Strings == {"v", "w"}
TTLs == 0..MaxTTL
Clients == {"c1", "c2"}
Members == {"m1", "m2", "m3"}
TableKeys == {"a", "b", "c", "d"}
HeapKeys == {"k1", "k2", "k3", "k4", "k5", "k6"}
Expiries == 1..MaxExpiry
Indices == (0 - MaxIndex)..MaxIndex
\* a thread that never stops calling
Forever == 0 - 1

\* std::optional: None is std::nullopt, Some(x) holds x
None == << >>
Some(x) == <<x>>
has_value(opt) == Len(opt) > 0
value_of(opt) == opt[1]

\* std::nullopt of an optional time point or duration
NoExpiry == -1

----------------------------------------------------------------------------
(* Value, Entry *)

StringValue(s) == [type_ |-> "STRING", string_value_ |-> s]

is_string(value) == value.type_ = "STRING"

as_string(value) ==
    CASE value.type_ = "STRING" -> value.string_value_
      [] value.type_ = "SORTED_SET" -> "[SORTED_SET]"
      [] OTHER -> "[NONE]"

NewEntry(k, v, exp) == [key |-> k, value |-> v, expiry |-> exp]

----------------------------------------------------------------------------
(* HashTable *)

\* std::hash<std::string>: a fixed function of the key; "a" and "b" share a
\* bucket, before and after the table doubles, and part when it doubles again
StdHash(k) == CASE k = "a" -> 1 [] k = "b" -> 5 [] k = "d" -> 4 [] OTHER -> 2

EmptyBuckets(n) == [i \in 0..(n - 1) |-> << >>]

HashTable_new == [bucket_count_ |-> InitialSize,
                  buckets_ |-> EmptyBuckets(InitialSize),
                  size_ |-> 0]

hash_function(ht, k) == StdHash(k) % ht.bucket_count_

\* position of key in the chain (1-based), 0 for end()
find_entry(ht, k, bucket_idx) ==
    LET chain == ht.buckets_[bucket_idx]
        hits == {i \in 1..Len(chain) : chain[i].key = k}
    IN IF hits = {} THEN 0 ELSE CHOOSE i \in hits : \A j \in hits : i <= j

RECURSIVE RehashChain(_, _, _, _)
RehashChain(chain, i, new_buckets, new_size) ==
    IF i > Len(chain) THEN new_buckets
    ELSE LET new_idx == StdHash(chain[i].key) % new_size
         IN RehashChain(chain, i + 1,
                [new_buckets EXCEPT ![new_idx] = Append(@, chain[i])], new_size)

RECURSIVE RehashBuckets(_, _, _, _)
RehashBuckets(ht, b, new_buckets, new_size) ==
    IF b >= ht.bucket_count_ THEN new_buckets
    ELSE RehashBuckets(ht, b + 1,
            RehashChain(ht.buckets_[b], 1, new_buckets, new_size), new_size)

\* a resize that keeps every chain at its old bucket index
resize_without_rehash(ht, new_size) ==
    [ht EXCEPT !.bucket_count_ = new_size,
               !.buckets_ = [i \in 0..(new_size - 1) |->
                                IF i < ht.bucket_count_ THEN ht.buckets_[i] ELSE << >>]]

resize(ht, new_size) ==
    [ht EXCEPT !.bucket_count_ = new_size,
               !.buckets_ = RehashBuckets(ht, 0, EmptyBuckets(new_size), new_size)]

\* size_ > bucket_count_ * 0.75
resize_if_needed(ht) ==
    IF 4 * ht.size_ > 3 * ht.bucket_count_ THEN resize(ht, ht.bucket_count_ * 2)
    ELSE ht

\* HashTable::set and HashTable::set_with_expiry differ only in the expiry stored
HashTable_put(ht, k, value, exp) ==
    LET bucket_idx == hash_function(ht, k)
        it == find_entry(ht, k, bucket_idx)
    IN IF it # 0
       THEN [ht EXCEPT !.buckets_[bucket_idx][it].value = value,
                       !.buckets_[bucket_idx][it].expiry = exp]
       ELSE resize_if_needed(
                [ht EXCEPT !.buckets_[bucket_idx] = Append(@, NewEntry(k, value, exp)),
                           !.size_ = @ + 1])

HashTable_set(ht, k, value) == HashTable_put(ht, k, value, NoExpiry)

HashTable_set_with_expiry(ht, k, value, ttl, clock) ==
    HashTable_put(ht, k, value, clock + ttl)

\* the Entry stored for the key, if any
HashTable_find(ht, k) ==
    LET bucket_idx == hash_function(ht, k)
        it == find_entry(ht, k, bucket_idx)
    IN IF it # 0 THEN Some(ht.buckets_[bucket_idx][it]) ELSE None

\* std::optional<Value>
HashTable_get(ht, k) ==
    LET bucket_idx == hash_function(ht, k)
        it == find_entry(ht, k, bucket_idx)
    IN IF it # 0 THEN Some(ht.buckets_[bucket_idx][it].value) ELSE None

HashTable_exists(ht, k) ==
    find_entry(ht, k, hash_function(ht, k)) # 0

RemoveAt(s, i) == SubSeq(s, 1, i - 1) \o SubSeq(s, i + 1, Len(s))

HashTable_del(ht, k) ==
    LET bucket_idx == hash_function(ht, k)
        it == find_entry(ht, k, bucket_idx)
    IN IF it # 0
       THEN [ht EXCEPT !.buckets_[bucket_idx] = RemoveAt(@, it),
                       !.size_ = @ - 1]
       ELSE ht

\* an expire that stores a deadline for a key the table does not hold
HashTable_expire_upsert(ht, k, ttl, clock) ==
    HashTable_put(ht, k, [type_ |-> "NONE"], clock + ttl)

HashTable_expire(ht, k, ttl, clock) ==
    LET bucket_idx == hash_function(ht, k)
        it == find_entry(ht, k, bucket_idx)
    IN IF it # 0
       THEN [ht EXCEPT !.buckets_[bucket_idx][it].expiry = clock + ttl]
       ELSE ht

HashTable_size(ht) == ht.size_

HashTable_clear(ht) ==
    [ht EXCEPT !.buckets_ = EmptyBuckets(ht.bucket_count_), !.size_ = 0]

\* Entry::is_expired
is_expired(e, clock) ==
    IF e.expiry = NoExpiry THEN FALSE ELSE clock > e.expiry

----------------------------------------------------------------------------
(* TTLHeap: heap_ is indexed from 0 in the code, heap_[i] is At(h, i) here *)

EmptyMap == [x \in {} |-> 0]

TTLHeap_new == [heap_ |-> << >>, key_to_index_ |-> EmptyMap]

At(h, i) == h.heap_[i + 1]

HeapSize(h) == Len(h.heap_)

Registered(h, k) == k \in DOMAIN h.key_to_index_

MapPut(f, k, i) == [x \in (DOMAIN f) \cup {k} |-> IF x = k THEN i ELSE f[x]]

MapErase(f, k) == [x \in (DOMAIN f) \ {k} |-> f[x]]

\* swap_entries without its two writes to key_to_index_
swap_entries_heap_only(h, i, j) ==
    [h EXCEPT !.heap_ = [h.heap_ EXCEPT ![i + 1] = h.heap_[j + 1],
                                         ![j + 1] = h.heap_[i + 1]]]

swap_entries(h, i, j) ==
    LET swapped == [h.heap_ EXCEPT ![i + 1] = h.heap_[j + 1],
                                   ![j + 1] = h.heap_[i + 1]]
    IN [heap_ |-> swapped,
        key_to_index_ |-> MapPut(MapPut(h.key_to_index_, swapped[i + 1].key, i),
                                 swapped[j + 1].key, j)]

RECURSIVE heapify_up(_, _)
heapify_up(h, index) ==
    IF index > 0
    THEN LET parent == (index - 1) \div 2
         IN IF At(h, index).expiry < At(h, parent).expiry
            THEN heapify_up(swap_entries(h, index, parent), parent)
            ELSE h
    ELSE h

RECURSIVE heapify_down(_, _)
heapify_down(h, index) ==
    LET size == HeapSize(h)
        left_child == 2 * index + 1
        right_child == 2 * index + 2
        s1 == IF left_child < size /\ At(h, left_child).expiry < At(h, index).expiry
              THEN left_child ELSE index
        smallest == IF right_child < size /\ At(h, right_child).expiry < At(h, s1).expiry
                    THEN right_child ELSE s1
    IN IF smallest # index
       THEN heapify_down(swap_entries(h, index, smallest), smallest)
       ELSE h

pop_back(h, k) ==
    [heap_ |-> SubSeq(h.heap_, 1, Len(h.heap_) - 1),
     key_to_index_ |-> MapErase(h.key_to_index_, k)]

TTLHeap_add(h, k, exp) ==
    IF Registered(h, k)
    THEN LET index == h.key_to_index_[k]
             h1 == [h EXCEPT !.heap_[index + 1].expiry = exp]
         IN heapify_down(heapify_up(h1, index), index)
    ELSE LET index == HeapSize(h)
             h1 == [heap_ |-> Append(h.heap_, [key |-> k, expiry |-> exp]),
                    key_to_index_ |-> MapPut(h.key_to_index_, k, index)]
         IN heapify_up(h1, index)

\* TTLHeap::update
TTLHeap_update(h, k, exp) ==
    IF Registered(h, k)
    THEN LET index == h.key_to_index_[k]
             old_expiry == At(h, index).expiry
             h1 == [h EXCEPT !.heap_[index + 1].expiry = exp]
         IN IF exp < old_expiry THEN heapify_up(h1, index) ELSE heapify_down(h1, index)
    ELSE TTLHeap_add(h, k, exp)

TTLHeap_remove(h, k) ==
    IF ~Registered(h, k) THEN h
    ELSE LET index == h.key_to_index_[k]
             last_index == HeapSize(h) - 1
         IN IF index # last_index
            THEN LET h1 == pop_back(swap_entries(h, index, last_index), k)
                 IN IF HeapSize(h1) > 0 THEN heapify_down(h1, index) ELSE h1
            ELSE pop_back(h, k)

\* one iteration of the loop of get_expired_keys: the root leaves the heap
PopRoot(h) ==
    LET k == At(h, 0).key
        h1 == pop_back(swap_entries(h, 0, HeapSize(h) - 1), k)
    IN IF HeapSize(h1) > 0 THEN heapify_down(h1, 0) ELSE h1

\* the pair <<heap left, expired_keys>>
RECURSIVE ExpiredLoop(_, _, _)
ExpiredLoop(h, clock, expired_keys) ==
    IF HeapSize(h) > 0 /\ At(h, 0).expiry <= clock
    THEN ExpiredLoop(PopRoot(h), clock, Append(expired_keys, At(h, 0).key))
    ELSE <<h, expired_keys>>

\* a get_expired_keys that takes only the keys whose expiry is before now
TTLHeap_get_expired_keys_strict(h, clock) == ExpiredLoop(h, clock - 1, << >>)

TTLHeap_get_expired_keys(h, clock) == ExpiredLoop(h, clock, << >>)

\* a clear that empties heap_ and forgets key_to_index_
TTLHeap_clear_heap_only(h) == [h EXCEPT !.heap_ = << >>]

TTLHeap_clear(h) == TTLHeap_new

\* std::optional<TimePoint>
TTLHeap_next_expiry(h) == IF HeapSize(h) = 0 THEN NoExpiry ELSE At(h, 0).expiry

----------------------------------------------------------------------------
(* double: the scores 1..MaxScore, -inf below them, +inf above them, and NaN,
   which is neither less than, greater than nor equal to anything *)

NaN == 0 - 1
NegInf == 0
PosInf == MaxScore + 1
Scores == 1..MaxScore
Doubles == Scores \cup {NaN}
TreeKeys == (1..MaxTreeKey) \cup {NaN}

DoubleLt(x, y) == x # NaN /\ y # NaN /\ x < y
DoubleGt(x, y) == x # NaN /\ y # NaN /\ x > y
DoubleLe(x, y) == x # NaN /\ y # NaN /\ x <= y
DoubleGe(x, y) == x # NaN /\ y # NaN /\ x >= y
DoubleEq(x, y) == x # NaN /\ y # NaN /\ x = y
DoubleNe(x, y) == ~DoubleEq(x, y)

----------------------------------------------------------------------------
(* AVLTree<double, std::string>: a unique_ptr<Node> is None (nullptr) or
   Some(node); the recursive helpers that change size_ return the pair
   [node, size_] *)

Node(k, v) == Some([key |-> k, value |-> v, height |-> 1, left |-> None, right |-> None])

AVLTree_new == [root_ |-> None, size_ |-> 0]

height(node) == IF has_value(node) THEN value_of(node).height ELSE 0

balance_factor(node) ==
    IF has_value(node)
    THEN height(value_of(node).left) - height(value_of(node).right)
    ELSE 0

Max(x, y) == IF x >= y THEN x ELSE y

update_height(node) ==
    IF has_value(node)
    THEN Some([value_of(node) EXCEPT
                  !.height = 1 + Max(height(value_of(node).left),
                                     height(value_of(node).right))])
    ELSE node

rotate_right(y) ==
    LET x == value_of(y).left
        y1 == update_height(Some([value_of(y) EXCEPT !.left = value_of(x).right]))
    IN update_height(Some([value_of(x) EXCEPT !.right = y1]))

rotate_left(x) ==
    LET y == value_of(x).right
        x1 == update_height(Some([value_of(x) EXCEPT !.right = value_of(y).left]))
    IN update_height(Some([value_of(y) EXCEPT !.left = x1]))

\* balance without its rotations
balance_heights_only(node0) == update_height(node0)

balance(node0) ==
    IF ~has_value(node0) THEN None
    ELSE LET node == update_height(node0)
             bf == balance_factor(node)
         IN IF bf > 1
            THEN IF balance_factor(value_of(node).left) < 0
                 THEN rotate_right(Some([value_of(node) EXCEPT
                                            !.left = rotate_left(value_of(node).left)]))
                 ELSE rotate_right(node)
            ELSE IF bf < -1
            THEN IF balance_factor(value_of(node).right) > 0
                 THEN rotate_left(Some([value_of(node) EXCEPT
                                           !.right = rotate_right(value_of(node).right)]))
                 ELSE rotate_left(node)
            ELSE node

RECURSIVE insert_node(_, _, _, _)
insert_node(node, key, value, size) ==
    IF ~has_value(node) THEN [node |-> Node(key, value), size_ |-> size + 1]
    ELSE LET n == value_of(node)
         IN IF DoubleLt(key, n.key)
            THEN LET sub == insert_node(n.left, key, value, size)
                 IN [node |-> balance(Some([n EXCEPT !.left = sub.node])),
                     size_ |-> sub.size_]
            ELSE IF DoubleGt(key, n.key)
            THEN LET sub == insert_node(n.right, key, value, size)
                 IN [node |-> balance(Some([n EXCEPT !.right = sub.node])),
                     size_ |-> sub.size_]
            ELSE [node |-> Some([n EXCEPT !.value = value]), size_ |-> size]

RECURSIVE find_min(_)
find_min(node) ==
    IF has_value(value_of(node).left) THEN find_min(value_of(node).left) ELSE node

RECURSIVE remove_node(_, _, _)
remove_node(node, key, size) ==
    IF ~has_value(node) THEN [node |-> None, size_ |-> size]
    ELSE LET n == value_of(node)
         IN IF DoubleLt(key, n.key)
            THEN LET sub == remove_node(n.left, key, size)
                 IN [node |-> balance(Some([n EXCEPT !.left = sub.node])),
                     size_ |-> sub.size_]
            ELSE IF DoubleGt(key, n.key)
            THEN LET sub == remove_node(n.right, key, size)
                 IN [node |-> balance(Some([n EXCEPT !.right = sub.node])),
                     size_ |-> sub.size_]
            ELSE IF ~has_value(n.left) /\ ~has_value(n.right)
            THEN [node |-> None, size_ |-> size - 1]
            ELSE IF ~has_value(n.left)
            THEN [node |-> n.right, size_ |-> size - 1]
            ELSE IF ~has_value(n.right)
            THEN [node |-> n.left, size_ |-> size - 1]
            ELSE LET successor == value_of(find_min(n.right))
                     sub == remove_node(n.right, successor.key, size)
                 IN [node |-> balance(Some([n EXCEPT !.key = successor.key,
                                                     !.value = successor.value,
                                                     !.right = sub.node])),
                     size_ |-> sub.size_]

\* the vector of pairs <<key, value>>
RECURSIVE inorder_traversal(_)
inorder_traversal(node) ==
    IF ~has_value(node) THEN << >>
    ELSE inorder_traversal(value_of(node).left)
            \o << <<value_of(node).key, value_of(node).value>> >>
            \o inorder_traversal(value_of(node).right)

RECURSIVE range_query(_, _, _)
range_query(node, min_key, max_key) ==
    IF ~has_value(node) THEN << >>
    ELSE LET n == value_of(node)
         IN (IF DoubleGt(n.key, min_key)
             THEN range_query(n.left, min_key, max_key) ELSE << >>)
            \o (IF DoubleGe(n.key, min_key) /\ DoubleLe(n.key, max_key)
                THEN << <<n.key, n.value>> >> ELSE << >>)
            \o (IF DoubleLt(n.key, max_key)
                THEN range_query(n.right, min_key, max_key) ELSE << >>)

RECURSIVE find_node(_, _)
find_node(node, key) ==
    IF ~has_value(node) THEN None
    ELSE IF DoubleLt(key, value_of(node).key) THEN find_node(value_of(node).left, key)
    ELSE IF DoubleGt(key, value_of(node).key) THEN find_node(value_of(node).right, key)
    ELSE node

AVLTree_insert(t, key, value) ==
    LET r == insert_node(t.root_, key, value, t.size_)
    IN [root_ |-> r.node, size_ |-> r.size_]

AVLTree_remove(t, key) ==
    LET r == remove_node(t.root_, key, t.size_)
    IN [root_ |-> r.node, size_ |-> r.size_]

\* bool AVLTree::remove: size_ < old_size
AVLTree_remove_result(t, key) == AVLTree_remove(t, key).size_ < t.size_

\* std::optional<V>
AVLTree_find(t, key) ==
    LET node == find_node(t.root_, key)
    IN IF has_value(node) THEN Some(value_of(node).value) ELSE None

AVLTree_size(t) == t.size_

AVLTree_clear(t) == AVLTree_new

AVLTree_range(t, min_key, max_key) == range_query(t.root_, min_key, max_key)

AVLTree_get_all(t) == inorder_traversal(t.root_)

----------------------------------------------------------------------------
(* SortedSet: score_tree_ maps a score to a member, member_scores_ a member
   to its score *)

SortedSet_new == [score_tree_ |-> AVLTree_new, member_scores_ |-> EmptyMap]

\* member_scores_.find(member) != member_scores_.end()
HasMember(z, member) == member \in DOMAIN z.member_scores_

\* the bool SortedSet::add returns
SortedSet_add_result(z, member, score) ==
    IF HasMember(z, member) THEN DoubleNe(z.member_scores_[member], score) ELSE TRUE

SortedSet_add(z, member, score) ==
    IF HasMember(z, member)
    THEN IF DoubleNe(z.member_scores_[member], score)
         THEN [score_tree_ |->
                   AVLTree_insert(AVLTree_remove(z.score_tree_, z.member_scores_[member]),
                                  score, member),
               member_scores_ |-> MapPut(z.member_scores_, member, score)]
         ELSE z
    ELSE [score_tree_ |-> AVLTree_insert(z.score_tree_, score, member),
          member_scores_ |-> MapPut(z.member_scores_, member, score)]

SortedSet_remove(z, member) ==
    IF HasMember(z, member)
    THEN [score_tree_ |-> AVLTree_remove(z.score_tree_, z.member_scores_[member]),
          member_scores_ |-> MapErase(z.member_scores_, member)]
    ELSE z

\* std::optional<double>
SortedSet_get_score(z, member) ==
    IF HasMember(z, member) THEN Some(z.member_scores_[member]) ELSE None

\* pairs <<score, member>> of the tree become pairs <<member, score>>
RECURSIVE SwapPairs(_)
SwapPairs(range) ==
    IF range = << >> THEN << >>
    ELSE << <<Head(range)[2], Head(range)[1]>> >> \o SwapPairs(Tail(range))

SortedSet_range_by_score(z, min_score, max_score) ==
    SwapPairs(AVLTree_range(z.score_tree_, min_score, max_score))

Min(x, y) == IF x <= y THEN x ELSE y

\* size_t arithmetic: the code's 2^64 is SizeModulus here
SizeT(i) == i % SizeModulus

\* range_by_rank: result.reserve(n) throws std::length_error for an n that
\* no vector can hold; the answer is [throws, range]
SortedSet_range_by_rank(z, start, stop) ==
    LET all == AVLTree_get_all(z.score_tree_)
    IN IF start >= Len(all) THEN [throws |-> FALSE, range |-> << >>]
       ELSE LET stop1 == Min(stop, Len(all) - 1)
            IN IF SizeT(stop1 - start + 1) > MaxVectorSize
               THEN [throws |-> TRUE, range |-> << >>]
               ELSE [throws |-> FALSE,
                     range |-> SwapPairs(SubSeq(all, start + 1, stop1 + 1))]

SortedSet_size(z) == Cardinality(DOMAIN z.member_scores_)

SortedSet_clear(z) == SortedSet_new

\* std::optional<size_t>: the index in get_all() of the pair (score, member)
SortedSet_rank(z, member) ==
    IF ~HasMember(z, member) THEN None
    ELSE LET score == z.member_scores_[member]
             all == AVLTree_get_all(z.score_tree_)
             hits == {i \in 1..Len(all) :
                         DoubleEq(all[i][1], score) /\ all[i][2] = member}
         IN IF hits = {} THEN None
            ELSE Some((CHOOSE i \in hits : \A j \in hits : i <= j) - 1)

SortedSet_get_all(z) == SwapPairs(AVLTree_get_all(z.score_tree_))

----------------------------------------------------------------------------
(* StorageEngine *)

VARIABLES
    hash_table_,   \* StorageEngine::hash_table_
    ttl_heap_,     \* StorageEngine::ttl_heap_
    now,           \* std::chrono::steady_clock::now()
    client,        \* per calling thread: the engine call in progress
    budget,        \* per calling thread: the calls it may still start
    worker,        \* the expiry thread: its position in the loop and its locals
    written,       \* history: per key, what the calls completed so far stored
    sorted_sets,   \* the SortedSet objects on the heap, by pointer
    zcall          \* per calling thread: the locals of its sorted-set call

vars == <<hash_table_, ttl_heap_, now, client, budget, worker, written,
          sorted_sets, zcall>>

nullptr == 0

SortedSetValue(p) == [type_ |-> "SORTED_SET", sorted_set_ptr_ |-> p]

is_sorted_set(value) == value.type_ = "SORTED_SET"

\* the locals of a sorted-set call: its arguments and SortedSet* zset
ZIdle == [member |-> "", score |-> 0, start |-> 0, stop |-> 0, zset |-> nullptr]

ZArgs(m, s, lo, hi, p) == [member |-> m, score |-> s, start |-> lo, stop |-> hi, zset |-> p]

Idle == [pc |-> "idle", op |-> "", key |-> "", value |-> "", ttl |-> 0,
         result |-> None]

\* a call in progress at the step `at`
Call(operation, k, v, t, at, res) ==
    [pc |-> at, op |-> operation, key |-> k, value |-> v, ttl |-> t, result |-> res]

\* a call that has computed its return value
Done(operation, k, res) ==
    [pc |-> "ret", op |-> operation, key |-> k, value |-> "", ttl |-> 0, result |-> res]

\* history of a key: absent (deleted or never written), live (written, its
\* deadline not reached), expired (written, its deadline reached)
Absent == [state |-> "absent", value |-> "", expiry |-> NoExpiry]
Expired == [state |-> "expired", value |-> "", expiry |-> NoExpiry]
Stored(v, exp, clock) ==
    IF exp # NoExpiry /\ clock >= exp THEN Expired
    ELSE [state |-> "live", value |-> v, expiry |-> exp]

EngineInit ==
    /\ hash_table_ = HashTable_new
    /\ ttl_heap_ = TTLHeap_new
    /\ now = 0
    /\ client = [c \in Clients |-> Idle]
    /\ worker = [pc |-> "check", timeout |-> NoExpiry, expired_keys |-> << >>,
                 running_ |-> TRUE]
    /\ written = [k \in Keys |-> Absent]
    /\ sorted_sets = << >>
    /\ zcall = [c \in Clients |-> ZIdle]

\* one thread calls the engine, for ever (the command dispatcher; the purge
\* its event loop runs itself is not part of this model)
Init ==
    /\ EngineInit
    /\ budget = [c \in Clients |-> IF c = "c1" THEN Forever ELSE 0]

\* the thread starts a call
Start(c) ==
    /\ client[c].pc = "idle"
    /\ budget[c] # 0
    /\ budget' = [budget EXCEPT ![c] = IF @ > 0 THEN @ - 1 ELSE @]

\* the steady clock advances
Tick ==
    /\ now < MaxTime
    /\ now' = now + 1
    /\ written' = [k \in Keys |->
                      IF written[k].state = "live"
                      THEN Stored(written[k].value, written[k].expiry, now + 1)
                      ELSE written[k]]
    /\ UNCHANGED <<hash_table_, ttl_heap_, client, budget, worker, sorted_sets, zcall>>

\* expiry_cv_.notify_one(): wakes the expiry thread if it is blocked in
\* wait/wait_for, and is lost otherwise
notify_one(w) ==
    IF w.pc = "wait" THEN [w EXCEPT !.pc = "drain", !.timeout = NoExpiry] ELSE w

\* the call returns to its caller
Return(c) ==
    /\ client[c].pc = "ret"
    /\ client' = [client EXCEPT ![c] = Idle]
    /\ UNCHANGED <<hash_table_, ttl_heap_, now, budget, worker, written, sorted_sets, zcall>>

\* a set that writes only over strings and missing keys: a key that holds a
\* sorted set keeps it
set_keeping_sorted_set(c, k, v) ==
    /\ Start(c)
    /\ hash_table_' =
           LET value_opt == HashTable_get(hash_table_, k)
           IN IF has_value(value_opt) /\ is_sorted_set(value_of(value_opt))
              THEN hash_table_
              ELSE HashTable_set(hash_table_, k, StringValue(v))
    /\ written' = [written EXCEPT ![k] = Stored(v, NoExpiry, now)]
    /\ client' = [client EXCEPT ![c] = Done("set", k, TRUE)]
    /\ UNCHANGED <<ttl_heap_, now, worker, sorted_sets, zcall>>

set(c, k, v) ==
    /\ Start(c)
    /\ hash_table_' = HashTable_set(hash_table_, k, StringValue(v))
    /\ written' = [written EXCEPT ![k] = Stored(v, NoExpiry, now)]
    /\ client' = [client EXCEPT ![c] = Done("set", k, TRUE)]
    /\ UNCHANGED <<ttl_heap_, now, worker, sorted_sets, zcall>>

\* set_nx: if (hash_table_.exists(key)) return false;
set_nx_exists(c, k, v) ==
    /\ Start(c)
    /\ client' = [client EXCEPT ![c] =
            IF HashTable_exists(hash_table_, k)
            THEN Done("set_nx", k, FALSE)
            ELSE Call("set_nx", k, v, 0, "set_nx_set", None)]
    /\ UNCHANGED <<hash_table_, ttl_heap_, now, worker, written, sorted_sets, zcall>>

\* set_nx: return hash_table_.set(key, Value(value));
set_nx_set(c) ==
    LET k == client[c].key
    IN /\ client[c].pc = "set_nx_set"
       /\ hash_table_' = HashTable_set(hash_table_, k, StringValue(client[c].value))
       /\ written' = [written EXCEPT ![k] = Stored(client[c].value, NoExpiry, now)]
       /\ client' = [client EXCEPT ![c] = Done("set_nx", k, TRUE)]
       /\ UNCHANGED <<ttl_heap_, now, budget, worker, sorted_sets, zcall>>

\* set_ex: hash_table_.set_with_expiry(key, Value(value), ttl)
set_ex_set_with_expiry(c, k, v, t) ==
    /\ Start(c)
    /\ hash_table_' = HashTable_set_with_expiry(hash_table_, k, StringValue(v), t, now)
    /\ written' = [written EXCEPT ![k] = Stored(v, now + t, now)]
    /\ client' = [client EXCEPT ![c] = Call("set_ex", k, "", t, "set_ex_add", TRUE)]
    /\ UNCHANGED <<ttl_heap_, now, worker, sorted_sets, zcall>>

\* set_ex without its ttl_heap_.add
set_ex_add_unregistered(c) ==
    /\ client[c].pc = "set_ex_add"
    /\ client' = [client EXCEPT ![c].pc = "set_ex_notify", ![c].ttl = 0]
    /\ UNCHANGED <<hash_table_, ttl_heap_, now, budget, worker, written, sorted_sets, zcall>>

\* set_ex: ttl_heap_.add(key, steady_clock::now() + ttl)
set_ex_add(c) ==
    /\ client[c].pc = "set_ex_add"
    /\ ttl_heap_' = TTLHeap_add(ttl_heap_, client[c].key, now + client[c].ttl)
    /\ client' = [client EXCEPT ![c].pc = "set_ex_notify", ![c].ttl = 0]
    /\ UNCHANGED <<hash_table_, now, budget, worker, written, sorted_sets, zcall>>

\* set_ex: expiry_cv_.notify_one(); return result;
set_ex_notify(c) ==
    /\ client[c].pc = "set_ex_notify"
    /\ worker' = notify_one(worker)
    /\ client' = [client EXCEPT ![c].pc = "ret"]
    /\ UNCHANGED <<hash_table_, ttl_heap_, now, budget, written, sorted_sets, zcall>>

\* the std::optional<std::string> that StorageEngine::get makes of the table's answer
GetResult(value_opt) ==
    IF has_value(value_opt) /\ is_string(value_of(value_opt))
    THEN Some(as_string(value_of(value_opt)))
    ELSE None

get(c, k) ==
    /\ Start(c)
    /\ client' = [client EXCEPT ![c] =
            Done("get", k, GetResult(HashTable_get(hash_table_, k)))]
    /\ UNCHANGED <<hash_table_, ttl_heap_, now, worker, written, sorted_sets, zcall>>

\* del: bool result = hash_table_.del(key);
del_del(c, k) ==
    /\ Start(c)
    /\ hash_table_' = HashTable_del(hash_table_, k)
    /\ written' = [written EXCEPT ![k] = Absent]
    /\ client' = [client EXCEPT ![c] =
            IF HashTable_exists(hash_table_, k)
            THEN Call("del", k, "", 0, "del_remove", TRUE)
            ELSE Done("del", k, FALSE)]
    /\ UNCHANGED <<ttl_heap_, now, worker, sorted_sets, zcall>>

\* del: if (result) ttl_heap_.remove(key);
del_remove(c) ==
    /\ client[c].pc = "del_remove"
    /\ ttl_heap_' = TTLHeap_remove(ttl_heap_, client[c].key)
    /\ client' = [client EXCEPT ![c].pc = "ret"]
    /\ UNCHANGED <<hash_table_, now, budget, worker, written, sorted_sets, zcall>>

exists(c, k) ==
    /\ Start(c)
    /\ client' = [client EXCEPT ![c] =
            Done("exists", k, HashTable_exists(hash_table_, k))]
    /\ UNCHANGED <<hash_table_, ttl_heap_, now, worker, written, sorted_sets, zcall>>

\* expire: if (!hash_table_.exists(key)) return false;
expire_exists(c, k, t) ==
    /\ Start(c)
    /\ client' = [client EXCEPT ![c] =
            IF HashTable_exists(hash_table_, k)
            THEN Call("expire", k, "", t, "expire_expire", None)
            ELSE Done("expire", k, FALSE)]
    /\ UNCHANGED <<hash_table_, ttl_heap_, now, worker, written, sorted_sets, zcall>>

\* expire: bool result = hash_table_.expire(key, ttl);
expire_expire(c) ==
    LET k == client[c].key
        found == HashTable_exists(hash_table_, k)
    IN /\ client[c].pc = "expire_expire"
       /\ hash_table_' = HashTable_expire(hash_table_, k, client[c].ttl, now)
       /\ written' = IF found /\ written[k].state = "live"
                     THEN [written EXCEPT ![k] =
                              Stored(written[k].value, now + client[c].ttl, now)]
                     ELSE written
       /\ client' = [client EXCEPT ![c] =
               IF found THEN Call("expire", k, "", client[c].ttl, "expire_add", TRUE)
               ELSE Done("expire", k, FALSE)]
       /\ UNCHANGED <<ttl_heap_, now, budget, worker, sorted_sets, zcall>>

\* expire: ttl_heap_.add(key, steady_clock::now() + ttl)
expire_add(c) ==
    /\ client[c].pc = "expire_add"
    /\ ttl_heap_' = TTLHeap_add(ttl_heap_, client[c].key, now + client[c].ttl)
    /\ client' = [client EXCEPT ![c].pc = "expire_notify", ![c].ttl = 0]
    /\ UNCHANGED <<hash_table_, now, budget, worker, written, sorted_sets, zcall>>

\* expire: expiry_cv_.notify_one(); return result;
expire_notify(c) ==
    /\ client[c].pc = "expire_notify"
    /\ worker' = notify_one(worker)
    /\ client' = [client EXCEPT ![c].pc = "ret"]
    /\ UNCHANGED <<hash_table_, ttl_heap_, now, budget, written, sorted_sets, zcall>>

\* StorageEngine::ttl: std::nullopt if the key is absent, else seconds(0)
StorageEngine_ttl(ht, k) ==
    IF ~HashTable_exists(ht, k) THEN NoExpiry ELSE 0

\* cmd_ttl: if (!storage.exists(key)) return create_integer(-2);
cmd_ttl_exists(c, k) ==
    /\ Start(c)
    /\ client' = [client EXCEPT ![c] =
            IF HashTable_exists(hash_table_, k)
            THEN Call("ttl", k, "", 0, "cmd_ttl_ttl", None)
            ELSE Done("ttl", k, -2)]
    /\ UNCHANGED <<hash_table_, ttl_heap_, now, worker, written, sorted_sets, zcall>>

\* cmd_ttl: auto ttl = storage.ttl(key); -1 if it has no value, else its count
cmd_ttl_ttl(c) ==
    LET ttl == StorageEngine_ttl(hash_table_, client[c].key)
    IN /\ client[c].pc = "cmd_ttl_ttl"
       /\ client' = [client EXCEPT ![c] =
               Done("ttl", client[c].key, IF ttl = NoExpiry THEN -1 ELSE ttl)]
       /\ UNCHANGED <<hash_table_, ttl_heap_, now, budget, worker, written, sorted_sets, zcall>>

dbsize(c) ==
    /\ Start(c)
    /\ client' = [client EXCEPT ![c] = Done("dbsize", "", HashTable_size(hash_table_))]
    /\ UNCHANGED <<hash_table_, ttl_heap_, now, worker, written, sorted_sets, zcall>>

\* flushdb: hash_table_.clear();
flushdb_clear(c) ==
    /\ Start(c)
    /\ hash_table_' = HashTable_clear(hash_table_)
    /\ written' = [k \in Keys |-> Absent]
    /\ client' = [client EXCEPT ![c] = Call("flushdb", "", "", 0, "flushdb_heap_clear", None)]
    /\ UNCHANGED <<ttl_heap_, now, worker, sorted_sets, zcall>>

\* flushdb: ttl_heap_.clear();
flushdb_heap_clear(c) ==
    /\ client[c].pc = "flushdb_heap_clear"
    /\ ttl_heap_' = TTLHeap_clear(ttl_heap_)
    /\ client' = [client EXCEPT ![c].pc = "ret"]
    /\ UNCHANGED <<hash_table_, now, budget, worker, written, sorted_sets, zcall>>

----------------------------------------------------------------------------
(* StorageEngine: the sorted-set calls.  A Value of type SORTED_SET holds a
   pointer to a SortedSet on the heap: sorted_sets[p] is the object at p *)

\* get_sorted_set(key): the pointer the key's Value holds, nullptr for a
\* missing key and for a Value of another type
get_sorted_set(ht, k) ==
    LET value_opt == HashTable_get(ht, k)
    IN IF has_value(value_opt) /\ is_sorted_set(value_of(value_opt))
       THEN value_of(value_opt).sorted_set_ptr_
       ELSE nullptr

\* a lookup that calls get_sorted_set(key, true): a missing key gets an Entry
Lookup_creating(c, operation, k, args, at, miss) ==
    LET p == get_sorted_set(hash_table_, k)
    IN /\ client' = [client EXCEPT ![c] =
               IF p = nullptr THEN Done(operation, k, miss)
               ELSE Call(operation, k, "", 0, at, None)]
       /\ zcall' = [zcall EXCEPT ![c] =
               IF p = nullptr THEN ZIdle ELSE [args EXCEPT !.zset = p]]
       /\ hash_table_' =
               IF HashTable_exists(hash_table_, k) THEN hash_table_
               ELSE HashTable_set(hash_table_, k, SortedSetValue(nullptr))
       /\ UNCHANGED <<ttl_heap_, now, worker, written, sorted_sets>>

\* the first half of zrem, zscore, zrange, zrangebyscore, zrank, zcard:
\* SortedSet* zset = get_sorted_set(key); if (!zset) return miss;
Lookup(c, operation, k, args, at, miss) ==
    LET p == get_sorted_set(hash_table_, k)
    IN /\ client' = [client EXCEPT ![c] =
               IF p = nullptr THEN Done(operation, k, miss)
               ELSE Call(operation, k, "", 0, at, None)]
       /\ zcall' = [zcall EXCEPT ![c] =
               IF p = nullptr THEN ZIdle ELSE [args EXCEPT !.zset = p]]
       /\ UNCHANGED <<hash_table_, ttl_heap_, now, worker, written, sorted_sets>>

\* the second half: the call on the SortedSet, under its mutex
Apply(c, at, res) ==
    /\ client[c].pc = at
    /\ client' = [client EXCEPT ![c] = Done(client[c].op, client[c].key, res)]
    /\ zcall' = [zcall EXCEPT ![c] = ZIdle]
    /\ UNCHANGED <<hash_table_, ttl_heap_, now, budget, worker, written>>

\* a get_sorted_set(key, true) that looks only at has_value(): a key that
\* holds a string gets a new sorted set like a missing one
zadd_get_sorted_set_converting(c, k, m, s) ==
    LET p == get_sorted_set(hash_table_, k)
    IN /\ Start(c)
       /\ IF p # nullptr
          THEN /\ client' = [client EXCEPT ![c] =
                      Call("zadd", k, "", 0, "zadd_add", None)]
               /\ zcall' = [zcall EXCEPT ![c] = ZArgs(m, s, 0, 0, p)]
               /\ UNCHANGED sorted_sets
          ELSE /\ Len(sorted_sets) < MaxSortedSets
               /\ sorted_sets' = Append(sorted_sets, SortedSet_new)
               /\ client' = [client EXCEPT ![c] =
                      Call("zadd", k, "", 0, "zadd_set", None)]
               /\ zcall' = [zcall EXCEPT ![c] = ZArgs(m, s, 0, 0, Len(sorted_sets) + 1)]
       /\ UNCHANGED <<hash_table_, ttl_heap_, now, worker, written>>

\* zadd: get_sorted_set(key, true) up to hash_table_.set
zadd_get_sorted_set(c, k, m, s) ==
    LET value_opt == HashTable_get(hash_table_, k)
        p == get_sorted_set(hash_table_, k)
    IN /\ Start(c)
       /\ IF has_value(value_opt)
          THEN /\ client' = [client EXCEPT ![c] =
                      IF p = nullptr THEN Done("zadd", k, FALSE)
                      ELSE Call("zadd", k, "", 0, "zadd_add", None)]
               /\ zcall' = [zcall EXCEPT ![c] =
                      IF p = nullptr THEN ZIdle ELSE ZArgs(m, s, 0, 0, p)]
               /\ UNCHANGED sorted_sets
          ELSE \* auto* zset = new SortedSet();
               /\ Len(sorted_sets) < MaxSortedSets
               /\ sorted_sets' = Append(sorted_sets, SortedSet_new)
               /\ client' = [client EXCEPT ![c] =
                      Call("zadd", k, "", 0, "zadd_set", None)]
               /\ zcall' = [zcall EXCEPT ![c] = ZArgs(m, s, 0, 0, Len(sorted_sets) + 1)]
       /\ UNCHANGED <<hash_table_, ttl_heap_, now, worker, written>>

\* zadd: get_sorted_set: hash_table_.set(key, value); return zset;
zadd_set(c) ==
    /\ client[c].pc = "zadd_set"
    /\ hash_table_' = HashTable_set(hash_table_, client[c].key,
                                    SortedSetValue(zcall[c].zset))
    /\ written' = [written EXCEPT ![client[c].key] = Absent]
    /\ client' = [client EXCEPT ![c].pc = "zadd_add"]
    /\ UNCHANGED <<ttl_heap_, now, budget, worker, sorted_sets, zcall>>

\* zadd: return zset->add(member, score);
zadd_add(c) ==
    LET z == sorted_sets[zcall[c].zset]
    IN /\ Apply(c, "zadd_add", SortedSet_add_result(z, zcall[c].member, zcall[c].score))
       /\ sorted_sets' = [sorted_sets EXCEPT ![zcall[c].zset] =
               SortedSet_add(z, zcall[c].member, zcall[c].score)]

zrem_get_sorted_set(c, k, m) ==
    /\ Start(c)
    /\ Lookup(c, "zrem", k, ZArgs(m, 0, 0, 0, nullptr), "zrem_remove", FALSE)

\* a zrem that deletes the key when its sorted set has become empty
zrem_remove_deleting(c) ==
    LET z == sorted_sets[zcall[c].zset]
        z1 == SortedSet_remove(z, zcall[c].member)
    IN /\ client[c].pc = "zrem_remove"
       /\ client' = [client EXCEPT ![c] =
               Done("zrem", client[c].key, HasMember(z, zcall[c].member))]
       /\ zcall' = [zcall EXCEPT ![c] = ZIdle]
       /\ sorted_sets' = [sorted_sets EXCEPT ![zcall[c].zset] = z1]
       /\ hash_table_' = IF SortedSet_size(z1) = 0
                         THEN HashTable_del(hash_table_, client[c].key)
                         ELSE hash_table_
       /\ UNCHANGED <<ttl_heap_, now, budget, worker, written>>

\* zrem: return zset->remove(member);
zrem_remove(c) ==
    LET z == sorted_sets[zcall[c].zset]
    IN /\ Apply(c, "zrem_remove", HasMember(z, zcall[c].member))
       /\ sorted_sets' = [sorted_sets EXCEPT ![zcall[c].zset] =
               SortedSet_remove(z, zcall[c].member)]

zscore_get_sorted_set(c, k, m) ==
    /\ Start(c)
    /\ Lookup(c, "zscore", k, ZArgs(m, 0, 0, 0, nullptr), "zscore_get_score", None)

zscore_get_score(c) ==
    /\ Apply(c, "zscore_get_score",
             SortedSet_get_score(sorted_sets[zcall[c].zset], zcall[c].member))
    /\ UNCHANGED sorted_sets

zrank_get_sorted_set(c, k, m) ==
    /\ Start(c)
    /\ Lookup(c, "zrank", k, ZArgs(m, 0, 0, 0, nullptr), "zrank_rank", None)

zrank_rank(c) ==
    /\ Apply(c, "zrank_rank",
             SortedSet_rank(sorted_sets[zcall[c].zset], zcall[c].member))
    /\ UNCHANGED sorted_sets

zcard_get_sorted_set(c, k) ==
    /\ Start(c)
    /\ Lookup(c, "zcard", k, ZIdle, "zcard_size", 0)

zcard_size(c) ==
    /\ Apply(c, "zcard_size", SortedSet_size(sorted_sets[zcall[c].zset]))
    /\ UNCHANGED sorted_sets

zrangebyscore_get_sorted_set(c, k, min, max) ==
    /\ Start(c)
    /\ Lookup(c, "zrangebyscore", k, ZArgs("", 0, min, max, nullptr),
              "zrangebyscore_range_by_score", << >>)

zrangebyscore_range_by_score(c) ==
    /\ Apply(c, "zrangebyscore_range_by_score",
             SortedSet_range_by_score(sorted_sets[zcall[c].zset],
                                      zcall[c].start, zcall[c].stop))
    /\ UNCHANGED sorted_sets

\* cmd_zrange: start = std::stoi(args[2]); stop = std::stoi(args[3]);
cmd_zrange(c, k, start, stop) ==
    /\ Start(c)
    /\ client' = [client EXCEPT ![c] =
            Call("zrange", k, "", 0,
                 IF start < 0 \/ stop < 0 THEN "cmd_zrange_zcard"
                 ELSE "zrange_get_sorted_set", None)]
    /\ zcall' = [zcall EXCEPT ![c] = ZArgs("", 0, start, stop, nullptr)]
    /\ UNCHANGED <<hash_table_, ttl_heap_, now, worker, written, sorted_sets>>

\* cmd_zrange: negative indices count from the end
\*   if (start < 0) start = size + start; if (stop < 0) stop = size + stop;
\*   if (start < 0) start = 0;
ResolveIndices(args, size) ==
    LET start1 == IF args.start < 0 THEN size + args.start ELSE args.start
        stop1 == IF args.stop < 0 THEN size + args.stop ELSE args.stop
    IN [args EXCEPT !.start = IF start1 < 0 THEN 0 ELSE start1,
                    !.stop = stop1,
                    !.zset = nullptr]

\* cmd_zrange: size_t size = storage.zcard(key): its get_sorted_set
cmd_zrange_zcard(c) ==
    LET p == get_sorted_set(hash_table_, client[c].key)
    IN /\ client[c].pc = "cmd_zrange_zcard"
       /\ client' = [client EXCEPT ![c].pc =
               IF p = nullptr THEN "zrange_get_sorted_set" ELSE "cmd_zrange_size"]
       /\ zcall' = [zcall EXCEPT ![c] =
               IF p = nullptr THEN ResolveIndices(zcall[c], 0)
               ELSE [zcall[c] EXCEPT !.zset = p]]
       /\ UNCHANGED <<hash_table_, ttl_heap_, now, budget, worker, written, sorted_sets>>

\* cmd_zrange: size_t size = storage.zcard(key): its zset->size()
cmd_zrange_size(c) ==
    /\ client[c].pc = "cmd_zrange_size"
    /\ client' = [client EXCEPT ![c].pc = "zrange_get_sorted_set"]
    /\ zcall' = [zcall EXCEPT ![c] =
            ResolveIndices(zcall[c], SortedSet_size(sorted_sets[zcall[c].zset]))]
    /\ UNCHANGED <<hash_table_, ttl_heap_, now, budget, worker, written, sorted_sets>>

\* an empty result that was not thrown
NoRange == [throws |-> FALSE, range |-> << >>]

\* zrange: SortedSet* zset = get_sorted_set(key); if (!zset) return {};
zrange_get_sorted_set(c) ==
    /\ client[c].pc = "zrange_get_sorted_set"
    /\ Lookup(c, "zrange", client[c].key, zcall[c], "zrange_range_by_rank", NoRange)
    /\ UNCHANGED budget

\* zrange: return zset->range_by_rank(start, stop); the int arguments of
\* cmd_zrange become size_t
zrange_range_by_rank(c) ==
    /\ Apply(c, "zrange_range_by_rank",
             SortedSet_range_by_rank(sorted_sets[zcall[c].zset],
                                     SizeT(zcall[c].start), SizeT(zcall[c].stop)))
    /\ UNCHANGED sorted_sets

\* CommandResponse
Response(t, v) == [type |-> t, val |-> v]

RECURSIVE MembersOf(_)
MembersOf(range) ==
    IF range = << >> THEN << >> ELSE <<Head(range)[1]>> \o MembersOf(Tail(range))

\* the CommandResponse cmd_zadd, cmd_zrem, cmd_zscore, cmd_zrange,
\* cmd_zrangebyscore, cmd_zrank and cmd_zcard make of the engine's answer
\* (one pair for cmd_zadd, one member for cmd_zrem, no WITHSCORES)
cmd_response(operation, res) ==
    CASE operation \in {"zadd", "zrem"} -> Response("INTEGER", IF res THEN 1 ELSE 0)
      [] operation = "zscore" ->
            IF has_value(res) THEN Response("STRING", value_of(res))
            ELSE Response("NIL", 0)
      [] operation = "zrange" ->
            IF res.throws
            THEN Response("ERROR", "ERR value is not an integer or out of range")
            ELSE Response("ARRAY", MembersOf(res.range))
      [] operation = "zrangebyscore" -> Response("ARRAY", MembersOf(res))
      [] operation = "zrank" ->
            IF has_value(res) THEN Response("INTEGER", value_of(res))
            ELSE Response("NIL", 0)
      [] operation = "zcard" -> Response("INTEGER", res)

----------------------------------------------------------------------------
(* The expiry thread: the loop of start_expiry_thread *)

\* next_expiry_ms: nullopt for an empty heap, 0 for a deadline that is due,
\* else the time left
next_expiry_ms(h, clock) ==
    LET next_expiry == TTLHeap_next_expiry(h)
    IN IF next_expiry = NoExpiry THEN NoExpiry
       ELSE IF next_expiry <= clock THEN 0
       ELSE next_expiry - clock

\* auto next_expiry = next_expiry_ms(); (under expiry_mutex_)
worker_next_expiry ==
    /\ worker.pc = "check"
    /\ worker' = IF worker.running_
                 THEN [worker EXCEPT !.pc = "block",
                                     !.timeout = next_expiry_ms(ttl_heap_, now)]
                 ELSE [worker EXCEPT !.pc = "exit"]
    /\ UNCHANGED <<hash_table_, ttl_heap_, now, client, budget, written, sorted_sets, zcall>>

\* expiry_cv_.wait_for(lock, next_expiry.value()) or expiry_cv_.wait(lock):
\* the thread starts to wait; timeout becomes the time wait_for gives up at
worker_wait ==
    /\ worker.pc = "block"
    /\ worker' = [worker EXCEPT !.pc = "wait",
                     !.timeout = IF worker.timeout = NoExpiry THEN NoExpiry
                                 ELSE now + worker.timeout]
    /\ UNCHANGED <<hash_table_, ttl_heap_, now, client, budget, written, sorted_sets, zcall>>

\* wait_for returns because its time is up; the clock of the model stops at
\* MaxTime and time does not, so a wait_for still pending then returns too
worker_timeout ==
    /\ worker.pc = "wait"
    /\ worker.timeout # NoExpiry
    /\ (now >= worker.timeout \/ now = MaxTime)
    /\ worker' = [worker EXCEPT !.pc = "drain", !.timeout = NoExpiry]
    /\ UNCHANGED <<hash_table_, ttl_heap_, now, client, budget, written, sorted_sets, zcall>>

\* a condition variable may wake without a notification
worker_spurious_wakeup ==
    /\ worker.pc = "wait"
    /\ worker' = [worker EXCEPT !.pc = "drain", !.timeout = NoExpiry]
    /\ UNCHANGED <<hash_table_, ttl_heap_, now, client, budget, written, sorted_sets, zcall>>

\* process_expired_keys: auto expired_keys = ttl_heap_.get_expired_keys();
worker_get_expired_keys ==
    LET got == TTLHeap_get_expired_keys(ttl_heap_, now)
    IN /\ worker.pc = "drain"
       /\ ttl_heap_' = got[1]
       /\ worker' = [worker EXCEPT !.pc = IF got[2] = << >> THEN "check" ELSE "del",
                                   !.expired_keys = got[2]]
       /\ UNCHANGED <<hash_table_, now, client, budget, written, sorted_sets, zcall>>

\* process_expired_keys: for (key : expired_keys) hash_table_.del(key);
worker_del ==
    LET k == Head(worker.expired_keys)
    IN /\ worker.pc = "del"
       /\ hash_table_' = HashTable_del(hash_table_, k)
       /\ worker' = [worker EXCEPT
               !.pc = IF Len(worker.expired_keys) = 1 THEN "check" ELSE "del",
               !.expired_keys = Tail(worker.expired_keys)]
       \* history: a key purged after its deadline is absent
       /\ written' = IF written[k].state = "expired"
                     THEN [written EXCEPT ![k] = Absent] ELSE written
       /\ UNCHANGED <<ttl_heap_, now, client, budget, sorted_sets, zcall>>

----------------------------------------------------------------------------
(* Shutdown: stop_expiry_thread, called by the destructor and by main *)

\* stop_expiry_thread: if (!running_) return; running_ = false;
stop_expiry_thread(c) ==
    /\ Start(c)
    /\ worker' = [worker EXCEPT !.running_ = FALSE]
    /\ client' = [client EXCEPT ![c] =
            IF worker.running_
            THEN Call("stop_expiry_thread", "", "", 0, "stop_notify", None)
            ELSE Done("stop_expiry_thread", "", None)]
    /\ UNCHANGED <<hash_table_, ttl_heap_, now, written, sorted_sets, zcall>>

\* stop_expiry_thread: expiry_cv_.notify_one();
stop_notify(c) ==
    /\ client[c].pc = "stop_notify"
    /\ worker' = notify_one(worker)
    /\ client' = [client EXCEPT ![c].pc = "stop_join"]
    /\ UNCHANGED <<hash_table_, ttl_heap_, now, budget, written, sorted_sets, zcall>>

\* stop_expiry_thread: expiry_thread_.join() returns when the thread's
\* function has returned
stop_join(c) ==
    /\ client[c].pc = "stop_join"
    /\ worker.pc = "exit"
    /\ client' = [client EXCEPT ![c].pc = "ret"]
    /\ UNCHANGED <<hash_table_, ttl_heap_, now, budget, worker, written, sorted_sets, zcall>>

----------------------------------------------------------------------------
(* The HashTable on its own: any sequence of set, set_with_expiry, del and
   clear, each one critical section of the table's mutex_ *)

\* hash_table_.set(key, value)
ht_set(k, v) ==
    /\ hash_table_' = HashTable_set(hash_table_, k, StringValue(v))
    /\ UNCHANGED <<ttl_heap_, now, client, budget, worker, written, sorted_sets, zcall>>

\* hash_table_.set_with_expiry(key, value, ttl)
ht_set_with_expiry(k, v, t) ==
    /\ hash_table_' = HashTable_set_with_expiry(hash_table_, k, StringValue(v), t, now)
    /\ UNCHANGED <<ttl_heap_, now, client, budget, worker, written, sorted_sets, zcall>>

\* hash_table_.del(key)
ht_del(k) ==
    /\ hash_table_' = HashTable_del(hash_table_, k)
    /\ UNCHANGED <<ttl_heap_, now, client, budget, worker, written, sorted_sets, zcall>>

\* hash_table_.clear()
ht_clear ==
    /\ hash_table_' = HashTable_clear(hash_table_)
    /\ UNCHANGED <<ttl_heap_, now, client, budget, worker, written, sorted_sets, zcall>>

HashTableNext ==
    \/ \E k \in TableKeys, v \in Strings : ht_set(k, v)
    \/ \E k \in TableKeys, v \in Strings, t \in TTLs : ht_set_with_expiry(k, v, t)
    \/ \E k \in TableKeys : ht_del(k)
    \/ ht_clear
    \/ Tick

HashTableInit ==
    /\ EngineInit
    /\ budget = [c \in Clients |-> 0]

HashTableSpec == HashTableInit /\ [][HashTableNext]_vars

----------------------------------------------------------------------------
(* The TTLHeap on its own: one thread, "c1", makes any sequence of calls of its
   public methods. Every method holds mutex_ from its first statement to its
   return. *)

\* the thread is not inside a call
HeapCallerFree == client["c1"].pc = "idle"

\* ttl_heap_.add(key, expiry)
ttl_heap_add(k, exp) ==
    /\ HeapCallerFree
    /\ ttl_heap_' = TTLHeap_add(ttl_heap_, k, exp)
    /\ UNCHANGED <<hash_table_, now, client, budget, worker, written, sorted_sets, zcall>>

\* ttl_heap_.update(key, expiry) on a key that is in the heap
ttl_heap_update(k, exp) ==
    /\ HeapCallerFree
    /\ Registered(ttl_heap_, k)
    /\ ttl_heap_' = TTLHeap_update(ttl_heap_, k, exp)
    /\ UNCHANGED <<hash_table_, now, client, budget, worker, written, sorted_sets, zcall>>

\* ttl_heap_.update(key, expiry) on a key that is not in the heap: update
\* holds mutex_ and calls add, whose first statement locks mutex_ again.
\* Locking a std::mutex the thread owns is undefined: the thread waits for
\* itself for ever
ttl_heap_update_add_blocks(k, exp) ==
    /\ HeapCallerFree
    /\ ~Registered(ttl_heap_, k)
    /\ client' = [client EXCEPT !["c1"] = Call("update", k, "", 0, "add_lock", None)]
    /\ UNCHANGED <<hash_table_, ttl_heap_, now, budget, worker, written, sorted_sets, zcall>>

\* the same call when the second lock is granted: add runs and both return
ttl_heap_update_add_runs(k, exp) ==
    /\ HeapCallerFree
    /\ ~Registered(ttl_heap_, k)
    /\ ttl_heap_' = TTLHeap_update(ttl_heap_, k, exp)
    /\ UNCHANGED <<hash_table_, now, client, budget, worker, written, sorted_sets, zcall>>

\* ttl_heap_.remove(key)
ttl_heap_remove(k) ==
    /\ HeapCallerFree
    /\ ttl_heap_' = TTLHeap_remove(ttl_heap_, k)
    /\ UNCHANGED <<hash_table_, now, client, budget, worker, written, sorted_sets, zcall>>

\* ttl_heap_.get_expired_keys()
ttl_heap_get_expired_keys ==
    /\ HeapCallerFree
    /\ ttl_heap_' = TTLHeap_get_expired_keys(ttl_heap_, now)[1]
    /\ UNCHANGED <<hash_table_, now, client, budget, worker, written, sorted_sets, zcall>>

\* ttl_heap_.clear()
ttl_heap_clear ==
    /\ HeapCallerFree
    /\ ttl_heap_' = TTLHeap_clear(ttl_heap_)
    /\ UNCHANGED <<hash_table_, now, client, budget, worker, written, sorted_sets, zcall>>

TTLHeapNext ==
    \/ \E k \in HeapKeys, exp \in Expiries : ttl_heap_add(k, exp)
    \/ \E k \in HeapKeys, exp \in Expiries : ttl_heap_update(k, exp)
    \/ \E k \in HeapKeys, exp \in Expiries : ttl_heap_update_add_blocks(k, exp)
    \/ \E k \in HeapKeys, exp \in Expiries : ttl_heap_update_add_runs(k, exp)
    \/ \E k \in HeapKeys : ttl_heap_remove(k)
    \/ ttl_heap_get_expired_keys
    \/ ttl_heap_clear
    \/ Tick

TTLHeapInit ==
    /\ EngineInit
    /\ budget = [c \in Clients |-> 0]

TTLHeapSpec == TTLHeapInit /\ [][TTLHeapNext]_vars
----------------------------------------------------------------------------
(* The AVLTree<double, std::string> on its own: any sequence of insert, remove
   and clear on the score_tree_ of one sorted set *)

\* score_tree_.insert(key, value)
avl_insert(key, value) ==
    /\ sorted_sets' = [sorted_sets EXCEPT ![1].score_tree_ = AVLTree_insert(@, key, value)]
    /\ UNCHANGED <<hash_table_, ttl_heap_, now, client, budget, worker, written, zcall>>

\* score_tree_.remove(key)
avl_remove(key) ==
    /\ sorted_sets' = [sorted_sets EXCEPT ![1].score_tree_ = AVLTree_remove(@, key)]
    /\ UNCHANGED <<hash_table_, ttl_heap_, now, client, budget, worker, written, zcall>>

\* score_tree_.clear()
avl_clear ==
    /\ sorted_sets' = [sorted_sets EXCEPT ![1].score_tree_ = AVLTree_clear(@)]
    /\ UNCHANGED <<hash_table_, ttl_heap_, now, client, budget, worker, written, zcall>>

AVLTreeNext ==
    \/ \E key \in TreeKeys, value \in Members : avl_insert(key, value)
    \/ \E key \in TreeKeys : avl_remove(key)
    \/ avl_clear

AVLTreeInit ==
    /\ hash_table_ = HashTable_new
    /\ ttl_heap_ = TTLHeap_new
    /\ now = 0
    /\ client = [c \in Clients |-> Idle]
    /\ budget = [c \in Clients |-> 0]
    /\ worker = [pc |-> "check", timeout |-> NoExpiry, expired_keys |-> << >>,
                 running_ |-> TRUE]
    /\ written = [k \in Keys |-> Absent]
    /\ sorted_sets = <<SortedSet_new>>
    /\ zcall = [c \in Clients |-> ZIdle]

AVLTreeSpec == AVLTreeInit /\ [][AVLTreeNext]_vars

----------------------------------------------------------------------------
(* Specifications *)

ClientStep(c) ==
    \/ \E k \in Keys, v \in Strings : set(c, k, v)
    \/ \E k \in Keys, v \in Strings : set_nx_exists(c, k, v)
    \/ set_nx_set(c)
    \/ \E k \in Keys, v \in Strings, t \in TTLs : set_ex_set_with_expiry(c, k, v, t)
    \/ set_ex_add(c)
    \/ set_ex_notify(c)
    \/ \E k \in Keys : get(c, k)
    \/ \E k \in Keys : del_del(c, k)
    \/ del_remove(c)
    \/ \E k \in Keys : exists(c, k)
    \/ \E k \in Keys, t \in TTLs : expire_exists(c, k, t)
    \/ expire_expire(c)
    \/ expire_add(c)
    \/ expire_notify(c)
    \/ \E k \in Keys : cmd_ttl_exists(c, k)
    \/ cmd_ttl_ttl(c)
    \/ dbsize(c)
    \/ flushdb_clear(c)
    \/ flushdb_heap_clear(c)
    \/ Return(c)

WorkerStep ==
    \/ worker_next_expiry
    \/ worker_wait
    \/ worker_timeout
    \/ worker_spurious_wakeup
    \/ worker_get_expired_keys
    \/ worker_del

Next ==
    \/ \E c \in Clients : ClientStep(c)
    \/ WorkerStep
    \/ Tick

\* one calling thread and the expiry thread
Spec == Init /\ [][Next]_vars

\* two threads call the engine, ConcurrentCalls times each
ConcurrentInit ==
    /\ EngineInit
    /\ budget = [c \in Clients |-> ConcurrentCalls]

ConcurrentSpec == ConcurrentInit /\ [][Next]_vars

\* one thread calls the engine SoloCalls times and then leaves it alone
SoloInit ==
    /\ EngineInit
    /\ budget = [c \in Clients |-> IF c = "c1" THEN SoloCalls ELSE 0]

\* a call that has started runs to its return
CallProgress(c) ==
    \/ set_nx_set(c)
    \/ set_ex_add(c)
    \/ set_ex_notify(c)
    \/ del_remove(c)
    \/ expire_expire(c)
    \/ expire_add(c)
    \/ expire_notify(c)
    \/ cmd_ttl_ttl(c)
    \/ flushdb_heap_clear(c)
    \/ Return(c)

\* fair scheduling: time passes, every thread that can run does run, and
\* wait_for returns when its time is up; a wakeup without notification is
\* nothing a thread may count on
Fairness ==
    /\ WF_vars(Tick)
    /\ \A c \in Clients : WF_vars(CallProgress(c))
    /\ WF_vars(worker_next_expiry)
    /\ WF_vars(worker_wait)
    /\ WF_vars(worker_timeout)
    /\ WF_vars(worker_get_expired_keys)
    /\ WF_vars(worker_del)

FairSpec == SoloInit /\ [][Next]_vars /\ Fairness

\* a sorted-set command and the string calls beside it
ZSetStep(c) ==
    \/ \E k \in Keys, m \in Members, s \in Doubles : zadd_get_sorted_set(c, k, m, s)
    \/ zadd_set(c)
    \/ zadd_add(c)
    \/ \E k \in Keys, m \in Members : zrem_get_sorted_set(c, k, m)
    \/ zrem_remove(c)
    \/ \E k \in Keys, m \in Members : zscore_get_sorted_set(c, k, m)
    \/ zscore_get_score(c)
    \/ \E k \in Keys, m \in Members : zrank_get_sorted_set(c, k, m)
    \/ zrank_rank(c)
    \/ \E k \in Keys : zcard_get_sorted_set(c, k)
    \/ zcard_size(c)
    \/ \E k \in Keys, min \in {NegInf} \cup Scores, max \in Scores \cup {PosInf} :
            zrangebyscore_get_sorted_set(c, k, min, max)
    \/ zrangebyscore_range_by_score(c)
    \/ \E k \in Keys, start \in Indices, stop \in Indices : cmd_zrange(c, k, start, stop)
    \/ cmd_zrange_zcard(c)
    \/ cmd_zrange_size(c)
    \/ zrange_get_sorted_set(c)
    \/ zrange_range_by_rank(c)
    \/ \E k \in Keys : set(c, k, "v")
    \/ \E k \in Keys : set_ex_set_with_expiry(c, k, "v", MaxTTL)
    \/ set_ex_add(c)
    \/ set_ex_notify(c)
    \/ \E k \in Keys : del_del(c, k)
    \/ del_remove(c)
    \/ dbsize(c)
    \/ Return(c)

ZSetNext == \E c \in Clients : ZSetStep(c)

\* one thread sends ZSetCalls commands, the clock stands still
ZSetInit ==
    /\ EngineInit
    /\ budget = [c \in Clients |-> IF c = "c1" THEN ZSetCalls ELSE 0]

ZSetSpec == ZSetInit /\ [][ZSetNext]_vars

----------------------------------------------------------------------------
(* CommandHandler::cmd_zadd with all its (score, member) pairs, run by the
   one thread that dispatches commands *)

\* the tokens a score argument is drawn from; std::stod throws on "x"
ScoreTokens == {"1", "2", "nan", "x"}

stod_throws(token) == token \notin {"1", "2", "nan"}

stod(token) == CASE token = "1" -> 1 [] token = "2" -> 2 [] OTHER -> NaN

\* the arguments after the key: up to two pairs, or a pair cut short
ZAddTails ==
    {<< >>}
    \cup {<<t>> : t \in ScoreTokens}
    \cup {<<t, m>> : t \in ScoreTokens, m \in Members}
    \cup {<<t, m, u>> : t \in ScoreTokens, m \in Members, u \in ScoreTokens}
    \cup {<<t, m, u, n>> : t \in ScoreTokens, m \in Members, u \in ScoreTokens, n \in Members}

\* StorageEngine::zadd from its call to its return: the table, the heap
\* objects and the bool it returns
StorageEngine_zadd(ht, sets, k, m, s) ==
    LET value_opt == HashTable_get(ht, k)
        p == get_sorted_set(ht, k)
        q == Len(sets) + 1
    IN IF has_value(value_opt)
       THEN IF p = nullptr
            THEN [hash_table_ |-> ht, sorted_sets |-> sets, added |-> FALSE]
            ELSE [hash_table_ |-> ht,
                  sorted_sets |-> [sets EXCEPT ![p] = SortedSet_add(@, m, s)],
                  added |-> SortedSet_add_result(sets[p], m, s)]
       ELSE [hash_table_ |-> HashTable_set(ht, k, SortedSetValue(q)),
             sorted_sets |-> Append(sets, SortedSet_add(SortedSet_new, m, s)),
             added |-> TRUE]

\* the loop of cmd_zadd over the pairs
RECURSIVE cmd_zadd_loop(_, _, _, _, _)
cmd_zadd_loop(ht, sets, k, tail, added) ==
    IF tail = << >>
    THEN [hash_table_ |-> ht, sorted_sets |-> sets, reply |-> Response("INTEGER", added)]
    ELSE IF stod_throws(tail[1])
    THEN [hash_table_ |-> ht, sorted_sets |-> sets,
          reply |-> Response("ERROR", "ERR value is not a valid float")]
    ELSE LET r == StorageEngine_zadd(ht, sets, k, tail[2], stod(tail[1]))
         IN cmd_zadd_loop(r.hash_table_, r.sorted_sets, k, SubSeq(tail, 3, Len(tail)),
                          IF r.added THEN added + 1 ELSE added)

\* args.size() is 2 + Len(tail)
cmd_zadd_run(ht, sets, k, tail) ==
    IF Len(tail) < 2 \/ Len(tail) % 2 # 0
    THEN [hash_table_ |-> ht, sorted_sets |-> sets,
          reply |-> Response("ERROR", "ERR wrong number of arguments for 'zadd' command")]
    ELSE cmd_zadd_loop(ht, sets, k, tail, 0)

cmd_zadd(c, k, tail) ==
    LET r == cmd_zadd_run(hash_table_, sorted_sets, k, tail)
    IN /\ Start(c)
       /\ hash_table_' = r.hash_table_
       /\ sorted_sets' = r.sorted_sets
       /\ written' = IF HashTable_exists(hash_table_, k) THEN written
                     ELSE [written EXCEPT ![k] = Absent]
       /\ client' = [client EXCEPT ![c] = Done("cmd_zadd", k, r.reply)]
       /\ UNCHANGED <<ttl_heap_, now, worker, zcall>>

ZAddNext ==
    \/ \E k \in Keys, tail \in ZAddTails : cmd_zadd("c1", k, tail)
    \/ \E k \in Keys, v \in Strings : set("c1", k, v)
    \/ Return("c1")

\* one thread sends SoloCalls commands
ZAddSpec == SoloInit /\ [][ZAddNext]_vars

\* two threads call zadd, ConcurrentCalls times each
ConcurrentZAddNext ==
    \E c \in Clients :
        \/ \E k \in Keys, m \in Members, s \in Doubles : zadd_get_sorted_set(c, k, m, s)
        \/ zadd_set(c)
        \/ zadd_add(c)
        \/ Return(c)

ConcurrentZAddSpec == ConcurrentInit /\ [][ConcurrentZAddNext]_vars

----------------------------------------------------------------------------
(* Claims *)

\* one thread writes keys with an expiry while another one shuts the engine
\* down
ShutdownNext ==
    \/ \E k \in Keys, t \in TTLs : set_ex_set_with_expiry("c1", k, "v", t)
    \/ set_ex_add("c1")
    \/ set_ex_notify("c1")
    \/ stop_expiry_thread("c2")
    \/ stop_notify("c2")
    \/ stop_join("c2")
    \/ \E c \in Clients : Return(c)
    \/ WorkerStep
    \/ Tick

ShutdownInit ==
    /\ EngineInit
    /\ budget = [c \in Clients |-> IF c = "c1" THEN ShutdownCalls ELSE 1]

\* the scheduling of Fairness, and the shutdown runs on as far as it can
ShutdownSpec ==
    /\ ShutdownInit
    /\ [][ShutdownNext]_vars
    /\ Fairness
    /\ WF_vars(stop_notify("c2"))
    /\ WF_vars(stop_join("c2"))

\* the Entry the table holds for a key that has one
EntryOf(ht, k) == value_of(HashTable_find(ht, k))

\* where each thread is in its call, and the clock
position == <<[c \in Clients |-> client[c].pc], worker, now>>

\* thread c takes this step, in a call of operation on the key k
Acts(c, operation, k) ==
    /\ client'[c].pc # client[c].pc
    /\ client'[c].op = operation
    /\ client'[c].key = k

\* the call of thread c returns in this step
Returns(c, operation) ==
    /\ client[c].pc # "ret"
    /\ client'[c].pc = "ret"
    /\ client'[c].op = operation

\* C1: a get on a key returns the value the last completed set / set_nx /
\* set_ex wrote to it when the key's deadline (if it has one) is not reached,
\* and nothing when the key was last deleted, with the expiry thread running.
C1_GetReturnsLastWritten ==
    [][\A c \in Clients, k \in Keys :
          (Acts(c, "get", k) /\ get(c, k)) =>
            /\ (written[k].state = "live"
                  => client'[c].result = Some(written[k].value))
            /\ (written[k].state = "absent" => client'[c].result = None)]_position

\* C2: when set(k, v) has run, k's Entry has no expiry and k is not
\* registered in the TTL heap.
C2_SetClearsExpiryAndRegistration ==
    [][\A c \in Clients, k \in Keys, v \in Strings :
          (Acts(c, "set", k) /\ set(c, k, v)) =>
            /\ EntryOf(hash_table_', k).expiry = NoExpiry
            /\ ~Registered(ttl_heap_', k)]_position

\* C3: the expiry thread never deletes an Entry that has no expiry.
C3_WorkerSparesEntriesWithoutExpiry ==
    [][(worker' # worker /\ worker_del /\ HashTable_exists(hash_table_, Head(worker.expired_keys)))
          => EntryOf(hash_table_, Head(worker.expired_keys)).expiry # NoExpiry]_position

\* C4: a get or an exists on a key whose Entry has an expiry earlier than now
\* answers nothing / false, and removes the Entry.
PastDeadline(k) ==
    /\ HashTable_exists(hash_table_, k)
    /\ EntryOf(hash_table_, k).expiry # NoExpiry
    /\ EntryOf(hash_table_, k).expiry < now

C4_ExpiredEntryInvisibleToReads ==
    [][\A c \in Clients, k \in Keys :
          /\ (Acts(c, "get", k) /\ get(c, k) /\ PastDeadline(k))
                => (client'[c].result = None /\ ~HashTable_exists(hash_table_', k))
          /\ (Acts(c, "exists", k) /\ exists(c, k) /\ PastDeadline(k))
                => (client'[c].result = FALSE /\ ~HashTable_exists(hash_table_', k))]_position

\* C5: under fair scheduling, a key whose deadline has passed, in the table
\* and in the TTL heap, is in the end deleted by the expiry thread when no
\* client calls the engine any more.
Quiescent == \A c \in Clients : client[c].pc = "idle" /\ budget[c] = 0

DeadlinePassed(k) ==
    /\ PastDeadline(k)
    /\ Registered(ttl_heap_, k)
    /\ At(ttl_heap_, ttl_heap_.key_to_index_[k]).expiry <= now

C5_ExpiredKeyEventuallyPurged ==
    \A k \in Keys :
        (Quiescent /\ DeadlinePassed(k)) ~> ~HashTable_exists(hash_table_, k)

\* C6: TTL answers -2 for an absent key, -1 for a key without expiry, and
\* otherwise the whole seconds left until the key's expiry.
ExpectedTTL(k) ==
    IF ~HashTable_exists(hash_table_, k) THEN -2
    ELSE IF EntryOf(hash_table_, k).expiry = NoExpiry THEN -1
    ELSE EntryOf(hash_table_, k).expiry - now

C6_TTLReply ==
    [][\A c \in Clients :
          Returns(c, "ttl") => client'[c].result = ExpectedTTL(client'[c].key)]_position

\* C7: of two set_nx calls that run concurrently on the same absent key,
\* exactly one returns true.
SetNxReturned(c, k) ==
    client[c].pc = "ret" /\ client[c].op = "set_nx" /\ client[c].key = k

C7_ExactlyOneSetNxWins ==
    \A k \in Keys :
        (SetNxReturned("c1", k) /\ SetNxReturned("c2", k))
            => (client["c1"].result # client["c2"].result)

\* C8: del(k) returns whether k had an Entry; when it returns, k has no Entry
\* and is not registered in the TTL heap; on an absent key it changes nothing.
C8_DelContract ==
    [][\A c \in Clients :
          /\ \A k \in Keys :
                (Acts(c, "del", k) /\ del_del(c, k)) =>
                  /\ client'[c].result = HashTable_exists(hash_table_, k)
                  /\ (~HashTable_exists(hash_table_, k)
                        => UNCHANGED <<hash_table_, ttl_heap_>>)
          /\ Returns(c, "del") =>
                /\ ~HashTable_exists(hash_table_', client'[c].key)
                /\ ~Registered(ttl_heap_', client'[c].key)]_position

\* C9: expire on a key that has no Entry returns false and changes neither
\* the table nor the TTL heap; on a key that has an Entry it returns true.
C9_ExpireContract ==
    [][\A c \in Clients :
          /\ \A k \in Keys, t \in TTLs :
                (Acts(c, "expire", k) /\ expire_exists(c, k, t)
                    /\ ~HashTable_exists(hash_table_, k))
                    => /\ client'[c].pc = "ret"
                       /\ client'[c].result = FALSE
                       /\ UNCHANGED <<hash_table_, ttl_heap_>>
          /\ (Acts(c, "expire", client[c].key) /\ expire_expire(c)) =>
                IF HashTable_exists(hash_table_, client[c].key)
                THEN /\ client'[c].result = TRUE
                     /\ HashTable_exists(hash_table_', client[c].key)
                ELSE /\ client'[c].pc = "ret"
                     /\ client'[c].result = FALSE
                     /\ UNCHANGED <<hash_table_, ttl_heap_>>
          /\ Returns(c, "expire") =>
                (client'[c].result = TRUE <=> client[c].pc = "expire_notify")]_position

\* an expire on a key that has no Entry has returned false
C9_Witness ==
    \E c \in Clients :
        /\ client[c].pc = "ret"
        /\ client[c].op = "expire"
        /\ client[c].result = FALSE
        /\ ~HashTable_exists(hash_table_, client[c].key)
        /\ hash_table_.size_ > 0

\* C10: when flushdb has returned and no other call has run since, dbsize
\* is 0, get finds nothing for any key, and the TTL heap is empty.
C10_FlushdbEmptiesEverything ==
    \A c \in Clients :
        (client[c].pc = "ret" /\ client[c].op = "flushdb")
            => /\ HashTable_size(hash_table_) = 0
               /\ \A k \in Keys : GetResult(HashTable_get(hash_table_, k)) = None
               /\ HeapSize(ttl_heap_) = 0
               /\ \A k \in Keys : ~Registered(ttl_heap_, k)
               /\ TTLHeap_next_expiry(ttl_heap_) = NoExpiry

\* flushdb has returned on a store that had grown its table
C10_Witness ==
    \E c \in Clients :
        /\ client[c].pc = "ret"
        /\ client[c].op = "flushdb"
        /\ hash_table_.bucket_count_ > InitialSize

----------------------------------------------------------------------------
(* Claims on sorted sets *)

\* the pairs <<score, member>> the ordered index holds
IndexPairs(z) ==
    LET all == AVLTree_get_all(z.score_tree_)
    IN {all[i] : i \in 1..Len(all)}

\* NaN was given to no member of the set
FiniteScores(z) == \A m \in DOMAIN z.member_scores_ : z.member_scores_[m] # NaN

\* C11: R1: in every sorted set, a member m has score s in the member-score
\* map iff the ordered index holds an entry for (s, m); members with equal
\* scores included.
R1(z) ==
    \A m \in Members, s \in Scores :
        (HasMember(z, m) /\ z.member_scores_[m] = s) <=> (<<s, m>> \in IndexPairs(z))

C11_SortedSetInvariantR1 ==
    \A p \in 1..Len(sorted_sets) : FiniteScores(sorted_sets[p]) => R1(sorted_sets[p])

\* the zadd of thread c returns from zset->add in this step
ZAddReturns(c) == client[c].pc = "zadd_add" /\ client'[c].pc = "ret"

\* C12: ZADD's integer reply counts only newly added members: adding an
\* absent member replies 1, re-adding a member of the set replies 0, with
\* the same score (unchanged) or with another one (updated); the scores are
\* numbers
C12_ZAddReplyCountsOnlyAdded ==
    [][\A c \in Clients :
          ZAddReturns(c) /\ zcall[c].score # NaN
              /\ FiniteScores(sorted_sets[zcall[c].zset])
          => cmd_response("zadd", client'[c].result)
                 = Response("INTEGER",
                            IF HasMember(sorted_sets[zcall[c].zset], zcall[c].member)
                            THEN 0 ELSE 1)]_position


\* member bytes ascending: "m1" < "m2" < "m3"
MemberOrder == <<"m1", "m2", "m3">>

MemberIndex(m) == CHOOSE i \in 1..Len(MemberOrder) : MemberOrder[i] = m

\* (score, member) ordering, ties in score broken by the member
PairLess(s1, m1, s2, m2) == s1 < s2 \/ (s1 = s2 /\ MemberIndex(m1) < MemberIndex(m2))

\* the number of members of z that come strictly before m
LesserCount(z, m) ==
    Cardinality({m2 \in DOMAIN z.member_scores_ :
                    PairLess(z.member_scores_[m2], m2, z.member_scores_[m], m)})

\* C13: rank(m) of a member m of a sorted set is defined and is the number
\* of members with strictly lesser (score, member); the scores are numbers
C13_RankCountsLesserMembers ==
    [][\A c \in Clients :
          client[c].pc = "zrank_rank" /\ client'[c].pc = "ret"
              /\ FiniteScores(sorted_sets[zcall[c].zset])
              /\ HasMember(sorted_sets[zcall[c].zset], zcall[c].member)
          => client'[c].result
                 = Some(LesserCount(sorted_sets[zcall[c].zset], zcall[c].member))]_position


\* the pairs <<member, score>> of z in ascending (score, member) order
Ascending(z) ==
    [i \in 1..Cardinality(DOMAIN z.member_scores_) |->
        LET m == CHOOSE m \in DOMAIN z.member_scores_ : LesserCount(z, m) = i - 1
        IN <<m, z.member_scores_[m]>>]

\* C14: range_by_rank(0, size - 1) is the list of all members in ascending
\* (score, member) order and range_by_score(-inf, +inf) is the same list;
\* the scores are numbers
C14_FullRangesListAllMembers ==
    \A p \in 1..Len(sorted_sets) :
        LET z == sorted_sets[p]
            by_rank == SortedSet_range_by_rank(z, 0, SizeT(SortedSet_size(z) - 1))
        IN FiniteScores(z) =>
              /\ ~by_rank.throws
              /\ by_rank.range = Ascending(z)
              /\ SortedSet_range_by_score(z, NegInf, PosInf) = by_rank.range


\* C15: round trip: iterating a sorted set yields its pairs in ascending
\* (score, member) order, so two sorted sets holding the same pairs iterate
\* alike whatever the order of the insertions was, and a sorted set whose
\* members have all been removed is empty in both indices; the scores are
\* numbers
C15_RoundTrip ==
    \A p, q \in 1..Len(sorted_sets) :
        LET z == sorted_sets[p]
            y == sorted_sets[q]
        IN (FiniteScores(z) /\ FiniteScores(y)) =>
              /\ SortedSet_get_all(z) = Ascending(z)
              /\ z.member_scores_ = y.member_scores_
                     => SortedSet_get_all(z) = SortedSet_get_all(y)
              /\ DOMAIN z.member_scores_ = {} => z.score_tree_ = AVLTree_new


\* the zrange of thread c returns from zset->range_by_rank in this step
ZRangeReturns(c) == client[c].pc = "zrange_range_by_rank" /\ client'[c].pc = "ret"

\* C16: ZRANGE never fails, and its reply is the empty list when the set is
\* empty or when the indices, negative ones resolved as size + i and start
\* raised to 0, have start > stop or start >= size; a negative stop that
\* resolves below 0 is such a case.  The sets are those that satisfy R1
C16_ZRangeEmptyWhenStartPastStop ==
    [][\A c \in Clients :
          LET z == sorted_sets[zcall[c].zset]
          IN ZRangeReturns(c) /\ FiniteScores(z) /\ R1(z)
             => /\ cmd_response("zrange", client'[c].result).type # "ERROR"
                /\ (\/ SortedSet_size(z) = 0
                    \/ zcall[c].start > zcall[c].stop
                    \/ zcall[c].start >= SortedSet_size(z))
                   => cmd_response("zrange", client'[c].result)
                          = Response("ARRAY", << >>)]_position


\* the sorted-set commands
ZCommands == {"zadd", "zrem", "zscore", "zrange", "zrangebyscore", "zrank", "zcard"}

\* the key holds a string
HoldsString(ht, k) ==
    HashTable_exists(ht, k) /\ is_string(EntryOf(ht, k).value)

\* C17: a sorted-set command on a key that holds a string is answered with an
\* error response
C17_WrongTypeOnStringKey ==
    [][\A c \in Clients, operation \in ZCommands :
          Returns(c, operation) /\ HoldsString(hash_table_, client'[c].key)
          => cmd_response(operation, client'[c].result).type = "ERROR"]_position


\* C18: no step of a sorted-set command on a key that holds a string changes
\* the table: the key keeps its value, its type and its expiry, dbsize is
\* the same, and the expiry heap is the same
C18_NoConversionOfStringKey ==
    [][\A c \in Clients :
          client'[c].op \in ZCommands /\ HoldsString(hash_table_, client'[c].key)
          => /\ hash_table_' = hash_table_
             /\ ttl_heap_' = ttl_heap_
             /\ HashTable_size(hash_table_') = HashTable_size(hash_table_)]_position

\* a zadd has returned on a key that holds a string with an expiry
C18_Witness ==
    \E c \in Clients :
        /\ client[c].pc = "ret"
        /\ client[c].op = "zadd"
        /\ HoldsString(hash_table_, client[c].key)
        /\ EntryOf(hash_table_, client[c].key).expiry # NoExpiry


\* C19: a ZADD whose score is NaN is answered with an error and leaves the
\* sorted set as it was: the member -> score map and the ordered index are
\* the same after zset->add
C19_ZAddRejectsNaN ==
    [][\A c \in Clients :
          ZAddReturns(c) /\ zcall[c].score = NaN
          => /\ cmd_response("zadd", client'[c].result).type = "ERROR"
             /\ sorted_sets'[zcall[c].zset] = sorted_sets[zcall[c].zset]]_position


\* the answer of a sorted-set command that found no sorted set
Miss(operation) ==
    CASE operation = "zrem" -> FALSE
      [] operation \in {"zscore", "zrank"} -> None
      [] operation = "zrange" -> NoRange
      [] operation = "zrangebyscore" -> << >>
      [] operation = "zcard" -> 0

\* every key but k has the Entry it had
OtherKeysUnchanged(k) ==
    \A k2 \in Keys \ {k} : HashTable_find(hash_table_', k2) = HashTable_find(hash_table_, k2)

\* C20: a zadd on a missing key goes on to create an Entry that holds a
\* sorted set: dbsize grows by one and the other keys keep their entries.
\* zrem, zscore, zrange, zrangebyscore, zrank and zcard on a missing key
\* leave the table as it is and return false / none / empty / 0
C20_OnlyZAddCreatesTheKey ==
    [][\A c \in Clients :
          LET k == client'[c].key
          IN ~HashTable_exists(hash_table_, k) =>
                /\ (client[c].pc = "idle" /\ client'[c].op = "zadd")
                      => (client'[c].pc = "zadd_set" /\ hash_table_' = hash_table_)
                /\ (client[c].pc = "zadd_set")
                      => /\ HashTable_exists(hash_table_', k)
                         /\ is_sorted_set(EntryOf(hash_table_', k).value)
                         /\ HashTable_size(hash_table_') = HashTable_size(hash_table_) + 1
                         /\ OtherKeysUnchanged(k)
                /\ \A operation \in ZCommands \ {"zadd"} :
                      client'[c].op = operation
                      => /\ hash_table_' = hash_table_
                         /\ sorted_sets' = sorted_sets
                         /\ client'[c].pc # "ret" \/ client'[c].result = Miss(operation)]_position

\* a zadd has just created the second key of the table, holding a new
\* sorted set
C20_Witness ==
    \E c \in Clients :
        /\ client[c].pc = "zadd_add"
        /\ HashTable_size(hash_table_) = 2
        /\ zcall[c].zset = Len(sorted_sets)
        /\ get_sorted_set(hash_table_, client[c].key) = zcall[c].zset
        /\ sorted_sets[zcall[c].zset] = SortedSet_new

\* C21: a zrem that removes the last member of a sorted set leaves the key's
\* Entry in the table: the key exists, dbsize is the same, the key still
\* holds the sorted set, and that set has no member
C21_ZRemKeepsEmptySortedSet ==
    [][\A c \in Clients :
          LET z == sorted_sets[zcall[c].zset]
              k == client[c].key
          IN (client[c].pc = "zrem_remove" /\ client'[c].pc = "ret"
                  /\ DOMAIN z.member_scores_ = {zcall[c].member})
             => /\ client'[c].result = TRUE
                /\ HashTable_exists(hash_table_', k)
                /\ HashTable_size(hash_table_') = HashTable_size(hash_table_)
                /\ get_sorted_set(hash_table_', k) = zcall[c].zset
                /\ SortedSet_size(sorted_sets'[zcall[c].zset]) = 0]_position

\* a zrem has returned true and left the key with an empty sorted set
C21_Witness ==
    \E c \in Clients :
        /\ client[c].pc = "ret"
        /\ client[c].op = "zrem"
        /\ client[c].result = TRUE
        /\ get_sorted_set(hash_table_, client[c].key) # nullptr
        /\ SortedSet_size(sorted_sets[get_sorted_set(hash_table_, client[c].key)]) = 0

\* C22: a set(k, v) on a key that holds a sorted set leaves k holding the
\* string v: get(k) is v, dbsize is the same, and no sorted set is reached
\* through k any more
C22_SetDropsSortedSet ==
    [][\A c \in Clients, k \in Keys :
          (client[c].pc = "idle" /\ Acts(c, "set", k)
              /\ get_sorted_set(hash_table_, k) # nullptr)
          => /\ GetResult(HashTable_get(hash_table_', k)) = Some(written'[k].value)
             /\ HashTable_size(hash_table_') = HashTable_size(hash_table_)
             /\ get_sorted_set(hash_table_', k) = nullptr]_position

\* after three calls one of the two sorted sets has a member and no key,
\* and the set that has just returned left a string in its key
C22_Witness ==
    \E c \in Clients, p \in 1..Len(sorted_sets) :
        /\ client[c].pc = "ret"
        /\ client[c].op = "set"
        /\ budget[c] = ZSetCalls - 3
        /\ Len(sorted_sets) = 2
        /\ HashTable_size(hash_table_) = 2
        /\ HoldsString(hash_table_, client[c].key)
        /\ SortedSet_size(sorted_sets[p]) = 1
        /\ \A k \in Keys : get_sorted_set(hash_table_, k) # p

\* the key is registered in the TTL heap with an expiry that is reached
Due(h, k) == Registered(h, k) /\ At(h, h.key_to_index_[k]).expiry <= now

\* the keys of a sequence of keys
KeysOf(seq) == {seq[i] : i \in 1..Len(seq)}

C24_ShutdownTerminates ==
    (client["c2"].pc = "stop_notify")
        ~> (client["c2"].pc = "ret" /\ worker.pc = "exit")

\* C25: the purge of a key is linearized with the writes on it: when the
\* expiry thread comes to delete a key it has taken out of the TTL heap, no
\* call is in progress, and the key's Entry has an expiry that is not reached
\* (a set_ex completed after the key was taken out), the Entry stays
C25_PurgeSparesRewrittenKey ==
    [][LET k == Head(worker.expired_keys)
       IN (/\ worker.pc = "del"
           /\ worker' # worker
           /\ \A c \in Clients : client[c].pc \in {"idle", "ret"}
           /\ HashTable_exists(hash_table_, k)
           /\ EntryOf(hash_table_, k).expiry # NoExpiry
           /\ EntryOf(hash_table_, k).expiry > now)
          => HashTable_find(hash_table_', k) = HashTable_find(hash_table_, k)]_position

----------------------------------------------------------------------------
(* Claims on the TTL heap *)

\* C26: heap order: no entry of heap_ expires before its parent
HeapOrdered(h) ==
    \A i \in 1..(HeapSize(h) - 1) : At(h, (i - 1) \div 2).expiry <= At(h, i).expiry

C26_HeapOrder == HeapOrdered(ttl_heap_)

\* C27: in every state the TTL heap can reach, get_expired_keys returns keys in
\* non-decreasing expiry order, returns every key whose expiry is not after
\* the clock, and leaves no entry whose expiry is not after the clock
ExpiryOf(h, k) == At(h, h.key_to_index_[k]).expiry

HeapKeysOf(h) == {h.heap_[i].key : i \in 1..Len(h.heap_)}

DrainInOrder(h, keys) ==
    \A i \in 1..(Len(keys) - 1) : ExpiryOf(h, keys[i]) <= ExpiryOf(h, keys[i + 1])

DrainComplete(h, clock, keys) ==
    \A k \in HeapKeysOf(h) : ExpiryOf(h, k) <= clock => k \in KeysOf(keys)

DrainLeavesLater(h, clock) ==
    \A i \in 1..Len(h.heap_) : h.heap_[i].expiry > clock

C27_DrainOrderedAndComplete ==
    LET got == TTLHeap_get_expired_keys(ttl_heap_, now)
    IN /\ DrainInOrder(ttl_heap_, got[2])
       /\ DrainComplete(ttl_heap_, now, got[2])
       /\ DrainLeavesLater(got[1], now)

\* C29: key_to_index_ maps exactly the keys of heap_, each to the index where
\* it sits, no key is in heap_ twice, and add on a registered key writes the
\* new expiry into the entry and leaves the size and the keys of the heap alone
IndexConsistent(h) ==
    /\ DOMAIN h.key_to_index_ = HeapKeysOf(h)
    /\ \A k \in DOMAIN h.key_to_index_ :
          /\ h.key_to_index_[k] \in 0..(HeapSize(h) - 1)
          /\ At(h, h.key_to_index_[k]).key = k
    /\ \A i, j \in 1..Len(h.heap_) : h.heap_[i].key = h.heap_[j].key => i = j

AddOverwritesInPlace(h) ==
    \A k \in HeapKeysOf(h), exp \in Expiries :
        LET added == TTLHeap_add(h, k, exp)
        IN /\ HeapSize(added) = HeapSize(h)
           /\ HeapKeysOf(added) = HeapKeysOf(h)
           /\ IndexConsistent(added)
           /\ ExpiryOf(added, k) = exp

C29_IndexConsistency ==
    /\ IndexConsistent(ttl_heap_)
    /\ AddOverwritesInPlace(ttl_heap_)

\* a full heap: every key is registered, k6 sits at the root, k1 at the last
\* index and expires after the root
C29_Witness ==
    /\ HeapSize(ttl_heap_) = Cardinality(HeapKeys)
    /\ ttl_heap_.key_to_index_["k6"] = 0
    /\ ttl_heap_.key_to_index_["k1"] = HeapSize(ttl_heap_) - 1
    /\ ExpiryOf(ttl_heap_, "k6") < ExpiryOf(ttl_heap_, "k1")

----------------------------------------------------------------------------
(* Claims on the AVL tree *)

\* C28: the tree is a finite map with unique keys: insert(k, v) makes find(k)
\* give v and changes no other key, remove(k) makes find(k) give nothing,
\* changes no other key and returns true iff k was there, size is the number
\* of keys find gives a value for, get_all lists exactly those keys with
\* their values in ascending order, and range(lo, hi) is the part of get_all
\* with lo <= key <= hi
Present(t) == {k \in TreeKeys : has_value(AVLTree_find(t, k))}

InsertAsMap(t) ==
    \A k \in TreeKeys, v \in Members, j \in TreeKeys :
        AVLTree_find(AVLTree_insert(t, k, v), j)
            = IF j = k THEN Some(v) ELSE AVLTree_find(t, j)

RemoveAsMap(t) ==
    \A k \in TreeKeys :
        /\ AVLTree_remove_result(t, k) = (k \in Present(t))
        /\ \A j \in TreeKeys :
              AVLTree_find(AVLTree_remove(t, k), j)
                  = IF j = k THEN None ELSE AVLTree_find(t, j)

SizeAsMap(t) == AVLTree_size(t) = Cardinality(Present(t))

GetAllAsMap(t) ==
    LET all == AVLTree_get_all(t)
    IN /\ \A i \in 1..(Len(all) - 1) : DoubleLt(all[i][1], all[i + 1][1])
       /\ {all[i] : i \in 1..Len(all)}
              = {<<k, value_of(AVLTree_find(t, k))>> : k \in Present(t)}

InRange(pair, lo, hi) == DoubleLe(lo, pair[1]) /\ DoubleLe(pair[1], hi)

RangeAsMap(t) ==
    \A lo \in TreeKeys, hi \in TreeKeys :
        AVLTree_range(t, lo, hi)
            = SelectSeq(AVLTree_get_all(t), LAMBDA pair : InRange(pair, lo, hi))

C28_OrderedIndexIsFiniteMap ==
    LET t == sorted_sets[1].score_tree_
    IN /\ InsertAsMap(t)
       /\ RemoveAsMap(t)
       /\ SizeAsMap(t)
       /\ GetAllAsMap(t)
       /\ RangeAsMap(t)

----------------------------------------------------------------------------
(* Claims on the engine and its TTL heap *)

\* C30: whenever no call of the engine is in progress, neither a caller's nor
\* the expiry thread's purge, every entry of the table that has an expiry is
\* registered in the TTL heap
NoOperationInProgress ==
    /\ \A c \in Clients : client[c].pc \in {"idle", "ret"}
    /\ worker.pc # "del"

HasExpiry(k) ==
    /\ has_value(HashTable_find(hash_table_, k))
    /\ EntryOf(hash_table_, k).expiry # NoExpiry

C39_UpdateOfMissingKeyReturns == \A c \in Clients : client[c].pc # "add_lock"

\* C32: after every insert and remove the tree is a binary search tree, every
\* node's height is 1 + the larger height of its children, every node's
\* balance factor is -1, 0 or 1, and size_ is the number of nodes
RECURSIVE NodesOf(_)
NodesOf(node) ==
    IF ~has_value(node) THEN {}
    ELSE {value_of(node)} \cup NodesOf(value_of(node).left) \cup NodesOf(value_of(node).right)

KeysUnder(node) == {n.key : n \in NodesOf(node)}

SearchTreeOrder(t) ==
    \A n \in NodesOf(t.root_) :
        /\ \A k \in KeysUnder(n.left) : DoubleLt(k, n.key)
        /\ \A k \in KeysUnder(n.right) : DoubleGt(k, n.key)

HeightsStored(t) ==
    \A n \in NodesOf(t.root_) : n.height = 1 + Max(height(n.left), height(n.right))

Balanced(t) ==
    \A n \in NodesOf(t.root_) : balance_factor(Some(n)) \in {-1, 0, 1}

SizeCountsNodes(t) == t.size_ = Len(inorder_traversal(t.root_))

C32_AVLInvariants ==
    LET t == sorted_sets[1].score_tree_
    IN /\ SearchTreeOrder(t)
       /\ HeightsStored(t)
       /\ Balanced(t)
       /\ SizeCountsNodes(t)

\* a tree of five nodes and height three
C32_Witness ==
    /\ sorted_sets[1].score_tree_.size_ = MaxTreeKey
    /\ height(sorted_sets[1].score_tree_.root_) = 3

----------------------------------------------------------------------------
(* Claims on the hash table *)

\* C33: each key is stored at most once and in the bucket hash(key) mod
\* bucket_count, size() is the number of stored entries, and doubling the
\* table changes the value and the expiry of no key that has not expired
Slots(ht) ==
    UNION {{<<b, i>> : i \in 1..Len(ht.buckets_[b])} : b \in 0..(ht.bucket_count_ - 1)}

StoredOnceInItsBucket(ht) ==
    /\ \A s \in Slots(ht) : s[1] = hash_function(ht, ht.buckets_[s[1]][s[2]].key)
    /\ \A s1 \in Slots(ht), s2 \in Slots(ht) :
          ht.buckets_[s1[1]][s1[2]].key = ht.buckets_[s2[1]][s2[2]].key => s1 = s2

SizeCountsEntries(ht) == HashTable_size(ht) = Cardinality(Slots(ht))

ResizeKeepsEntries(ht, clock) ==
    LET doubled == resize(ht, ht.bucket_count_ * 2)
    IN \A k \in TableKeys :
          (/\ has_value(HashTable_find(ht, k))
           /\ ~is_expired(value_of(HashTable_find(ht, k)), clock))
              => HashTable_find(doubled, k) = HashTable_find(ht, k)

C33_HashTableInvariants ==
    /\ StoredOnceInItsBucket(hash_table_)
    /\ SizeCountsEntries(hash_table_)
    /\ ResizeKeepsEntries(hash_table_, now)

\* the table has doubled and holds four entries, one of them expired, the
\* keys "a" and "b" in different buckets
C33_Witness ==
    /\ hash_table_.bucket_count_ > InitialSize
    /\ HashTable_size(hash_table_) = 4
    /\ hash_function(hash_table_, "a") # hash_function(hash_table_, "b")
    /\ is_expired(value_of(HashTable_find(hash_table_, "c")), now)

\* C34: whenever no call of the engine is in progress, every key registered
\* in the TTL heap has an entry in the table
C34_RegisteredKeyHasEntry ==
    NoOperationInProgress
        => \A k \in Keys : Registered(ttl_heap_, k) => has_value(HashTable_find(hash_table_, k))

\* C35: once the calls of set_ex and expire on a key have returned, the
\* deadline the TTL heap holds for the key is not before the expiry of the
\* key's entry
C35_DeadlineNotBeforeExpiry ==
    NoOperationInProgress
        => \A k \in Keys :
              (HasExpiry(k) /\ Registered(ttl_heap_, k))
                  => ExpiryOf(ttl_heap_, k) >= EntryOf(hash_table_, k).expiry

----------------------------------------------------------------------------
(* Claims on the sorted set's frame and on ZADD *)

\* C36: add(m, s) and remove(m) leave every other member as it was: its
\* score, its rank, and whether it is in the result of each range_by_rank and
\* range_by_score
InRangeByRank(z, member, start, stop) ==
    member \in KeysOf(MembersOf(SortedSet_range_by_rank(z, start, stop).range))

InRangeByScore(z, member, min_score, max_score) ==
    member \in KeysOf(MembersOf(SortedSet_range_by_score(z, min_score, max_score)))

SameForMember(z, changed, member) ==
    /\ SortedSet_get_score(changed, member) = SortedSet_get_score(z, member)
    /\ SortedSet_rank(changed, member) = SortedSet_rank(z, member)
    /\ \A start \in 0..MaxIndex, stop \in 0..MaxIndex :
          InRangeByRank(changed, member, start, stop) = InRangeByRank(z, member, start, stop)
    /\ \A min_score \in Scores, max_score \in Scores :
          InRangeByScore(changed, member, min_score, max_score)
              = InRangeByScore(z, member, min_score, max_score)

C36_AddRemoveChangeOneMember ==
    \A p \in DOMAIN sorted_sets :
        \A m \in Members : \A other \in Members \ {m} :
            /\ \A s \in Doubles :
                  SameForMember(sorted_sets[p], SortedSet_add(sorted_sets[p], m, s), other)
            /\ SameForMember(sorted_sets[p], SortedSet_remove(sorted_sets[p], m), other)

\* C37: a ZADD command that replies with an error leaves the table and every
\* sorted set as they were: none of its pairs is applied
C37_FailedZAddAppliesNothing ==
    [][(/\ Acts("c1", "cmd_zadd", client'["c1"].key)
        /\ client'["c1"].pc = "ret"
        /\ client'["c1"].result.type = "ERROR")
       => /\ hash_table_' = hash_table_
          /\ sorted_sets' = sorted_sets]_position

\* C38: when two threads have each made one zadd call on the same key, which
\* was missing, with different members, and both calls have returned, both
\* have returned true and the key holds the one sorted set there is, with both
\* members
BothZAddReturned(k) ==
    \A c \in Clients :
        /\ client[c].pc = "ret" /\ client[c].op = "zadd" /\ client[c].key = k
        /\ budget[c] = ConcurrentCalls - 1

MembersAdded == UNION {DOMAIN sorted_sets[p].member_scores_ : p \in DOMAIN sorted_sets}

C38_ConcurrentZAddKeepsBothMembers ==
    \A k \in Keys :
        (BothZAddReturned(k) /\ Cardinality(MembersAdded) = 2)
            => /\ \A c \in Clients : client[c].result = TRUE
               /\ Len(sorted_sets) = 1
               /\ get_sorted_set(hash_table_, k) # nullptr
               /\ DOMAIN sorted_sets[get_sorted_set(hash_table_, k)].member_scores_
                      = MembersAdded

(* Mutexes: the locks each engine operation takes, one after another *)

TableMutex == "HashTable::mutex_"
SetMutex == "SortedSet::mutex_"
HeapMutex == "TTLHeap::mutex_"
ExpiryMutex == "StorageEngine::expiry_mutex_"

\* std::lock_guard's constructor and destructor on the mutex m
mutex_lock(m) == <<"lock", m>>
mutex_unlock(m) == <<"unlock", m>>
\* an if on the data: control goes on at one of the steps `to`, 0 being return
branch(to) == <<"branch", to>>

\* a method of HashTable, SortedSet or TTLHeap: the guard lives as long as
\* the body, and the body calls no other locking method
guarded(m) == <<mutex_lock(m), mutex_unlock(m)>>

\* hash_table_.set_with_expiry under the table's mutex and ttl_heap_.add
\* under the heap's, both held at once
set_ex_locks_nested ==
    <<mutex_lock(TableMutex), mutex_lock(HeapMutex),
      mutex_unlock(HeapMutex), mutex_unlock(TableMutex)>>

\* hash_table_.set_with_expiry (always true), then ttl_heap_.add;
\* notify_one takes no mutex
set_ex_locks == guarded(TableMutex) \o guarded(HeapMutex)

\* hash_table_.exists, return if present, else hash_table_.set
set_nx_locks == guarded(TableMutex) \o <<branch({0, 4})>> \o guarded(TableMutex)

\* hash_table_.del, and ttl_heap_.remove if it deleted
del_locks == guarded(TableMutex) \o <<branch({0, 4})>> \o guarded(HeapMutex)

\* hash_table_.exists, hash_table_.expire, ttl_heap_.add
expire_locks ==
    guarded(TableMutex) \o <<branch({0, 4})>> \o guarded(TableMutex)
        \o <<branch({0, 7})>> \o guarded(HeapMutex)

\* hash_table_.clear, then ttl_heap_.clear
flushdb_locks == guarded(TableMutex) \o guarded(HeapMutex)

\* get_sorted_set(key, true): hash_table_.get; a value of another type
\* returns, a missing key is created by hash_table_.set (step 4), a sorted
\* set is used as found (step 6); then zset->add
zadd_locks ==
    guarded(TableMutex) \o <<branch({0, 4, 6})>> \o guarded(TableMutex)
        \o guarded(SetMutex)

\* get_sorted_set(key): hash_table_.get; nullptr returns; else one method
\* of the sorted set
zread_locks == guarded(TableMutex) \o <<branch({0, 4})>> \o guarded(SetMutex)

\* the loop of the expiry thread: expiry_mutex_ is held over
\* next_expiry_ms(), given up for the wait (step 4) and taken again on
\* waking (step 5), released at the end of the block; then
\* process_expired_keys(): get_expired_keys, and hash_table_.del per key
expiry_thread_locks ==
    <<mutex_lock(ExpiryMutex)>> \o guarded(HeapMutex)
        \o <<mutex_unlock(ExpiryMutex), mutex_lock(ExpiryMutex),
             mutex_unlock(ExpiryMutex)>>
        \o guarded(HeapMutex) \o <<branch({1, 10})>>
        \o guarded(TableMutex) \o <<branch({1, 10})>>

ZReads == {"zrem", "zscore", "zrank", "zcard", "zrange", "zrangebyscore"}
LockedOperations ==
    {"set", "set_nx", "set_ex", "get", "del", "exists", "expire", "ttl",
     "dbsize", "flushdb", "zadd"} \cup ZReads

LockSteps(operation) ==
    CASE operation = "set_ex" -> set_ex_locks
      [] operation = "set_nx" -> set_nx_locks
      [] operation = "del" -> del_locks
      [] operation = "expire" -> expire_locks
      [] operation = "flushdb" -> flushdb_locks
      [] operation = "zadd" -> zadd_locks
      [] operation \in ZReads -> zread_locks
      [] operation = "expiry_thread" -> expiry_thread_locks
      [] OTHER -> guarded(TableMutex)

Threads == Clients \cup {"expiry_thread"}
Thread(t) == IF t = "expiry_thread" THEN worker ELSE client[t]

NotCalling == [pc |-> "idle", op |-> "", at |-> 0, held |-> << >>]
Running(operation) == [pc |-> "run", op |-> operation, at |-> 1, held |-> << >>]

HeldBy(t) == {Thread(t).held[i] : i \in 1..Len(Thread(t).held)}
Holders(m) == {t \in Threads : m \in HeldBy(t)}

\* the thread t stands before a step of this kind
AtStep(t, kind) ==
    /\ Thread(t).pc = "run"
    /\ Thread(t).at <= Len(LockSteps(Thread(t).op))
    /\ LockSteps(Thread(t).op)[Thread(t).at][1] = kind

Operand(t) == LockSteps(Thread(t).op)[Thread(t).at][2]

Becomes(t, th) ==
    /\ IF t = "expiry_thread"
       THEN worker' = th /\ UNCHANGED client
       ELSE client' = [client EXCEPT ![t] = th] /\ UNCHANGED worker
    /\ UNCHANGED <<hash_table_, ttl_heap_, now, budget, written, sorted_sets, zcall>>

engine_call(c, operation) ==
    /\ client[c].pc = "idle"
    /\ Becomes(c, Running(operation))

\* std::mutex::lock: blocks while any thread, the caller included, holds it
lock_guard(t) ==
    /\ AtStep(t, "lock")
    /\ Holders(Operand(t)) = {}
    /\ Becomes(t, [Thread(t) EXCEPT !.at = @ + 1,
                                    !.held = Append(@, Operand(t))])

lock_guard_end(t) ==
    /\ AtStep(t, "unlock")
    /\ Becomes(t, [Thread(t) EXCEPT
                       !.at = @ + 1,
                       !.held = SelectSeq(@, LAMBDA m : m # Operand(t))])

take_branch(t) ==
    /\ AtStep(t, "branch")
    /\ \E to \in Operand(t) :
           Becomes(t, IF to = 0 THEN NotCalling
                      ELSE [Thread(t) EXCEPT !.at = to])

engine_return(c) ==
    /\ client[c].pc = "run"
    /\ client[c].at > Len(LockSteps(client[c].op))
    /\ Becomes(c, NotCalling)

LockNext ==
    \/ \E c \in Clients, operation \in LockedOperations : engine_call(c, operation)
    \/ \E t \in Threads : lock_guard(t)
    \/ \E t \in Threads : lock_guard_end(t)
    \/ \E t \in Threads : take_branch(t)
    \/ \E c \in Clients : engine_return(c)

\* the engine as constructed, the expiry thread at the top of its loop
LockInit ==
    /\ hash_table_ = HashTable_new
    /\ ttl_heap_ = TTLHeap_new
    /\ now = 0
    /\ client = [c \in Clients |-> NotCalling]
    /\ budget = [c \in Clients |-> Forever]
    /\ worker = Running("expiry_thread")
    /\ written = [k \in Keys |-> Absent]
    /\ sorted_sets = << >>
    /\ zcall = [c \in Clients |-> ZIdle]

LockSpec == LockInit /\ [][LockNext]_vars

----------------------------------------------------------------------------
(* Claims on the mutexes *)

ComponentMutexes == {TableMutex, SetMutex, HeapMutex}

\* zadd creating its key: the table's mutex, then the sorted set's
OnZAddCreatingPath(t) ==
    /\ Thread(t).op = "zadd"
    /\ Thread(t).held = <<TableMutex, SetMutex>>

AtMostOneComponentMutex ==
    \A t \in Threads :
        \/ Cardinality(HeldBy(t) \cap ComponentMutexes) <= 1
        \/ OnZAddCreatingPath(t)

\* the threads holding the mutex that t is blocked on
WaitsFor(t) ==
    IF AtStep(t, "lock") THEN Holders(Operand(t)) ELSE {}

WaitsForAny(ts) == UNION {WaitsFor(t) : t \in ts}

\* the threads t waits for, directly or through other waiting threads
WaitsForChain(t) ==
    WaitsFor(t) \cup WaitsForAny(WaitsFor(t))
        \cup WaitsForAny(WaitsForAny(WaitsFor(t)))

NoDeadlock == \A t \in Threads : t \notin WaitsForChain(t)

\* C31: no thread holds two of the hash table's mutex, a sorted set's
\* mutex and the TTL heap's mutex at once, save the table's and then the
\* sorted set's in a zadd; and no threads wait for each other's mutexes
\* in a cycle, whatever the interleaving of engine calls and expiry thread.
C31_OneMutexAtATimeNoDeadlock == AtMostOneComponentMutex /\ NoDeadlock

\* the expiry thread holds expiry_mutex_ and the heap's mutex inside
\* next_expiry_ms, a set_ex is blocked before ttl_heap_.add, and a zadd
\* that went through hash_table_.set holds the sorted set's mutex
C31_Witness ==
    /\ worker.held = <<ExpiryMutex, HeapMutex>>
    /\ client["c1"].op = "set_ex"
    /\ WaitsFor("c1") = {"expiry_thread"}
    /\ client["c2"].op = "zadd"
    /\ client["c2"].held = <<SetMutex>>

====
